---------------------------- MODULE Spec2Model ----------------------------
(***************************************************************************)
(* Model of the client-side notification reconciler of the AltMe web app   *)
(* (src/src/components/notifications/notification-bell.tsx, component      *)
(* NotificationBell): the candidate producers driven by Firestore          *)
(* snapshot listeners and their error callbacks, mergeNotifications,       *)
(* sendEmailNotification, the derived unread counter and the handlers of   *)
(* the dropdown that write the read state.                                 *)
(*                                                                         *)
(* A value that is undefined/absent in the TypeScript code is modelled by  *)
(* the empty string for strings ("" is falsy in JS exactly as undefined    *)
(* is) and by 0 for counters and timestamps read with `x && x > 0` or      *)
(* `if (x)`; hasReadIds tells whether readNotificationIds is present.      *)
(***************************************************************************)
EXTENDS Integers, Sequences, FiniteSets, Bags, TLC

(***************************************************************************)
(* Bounds of the model.                                                    *)
(***************************************************************************)
\* Number of listener callbacks (merge calls) started in one mounted component.
MaxPasses == 2
\* Largest value of the wall clock read by Timestamp.now().
MaxTime == 2
\* Number of calls of the dropdown's handlers (handleOpenChange, handleItemSelect).
MaxUserActions == 2
\* Number of invocations of an upload hook (handleFileChange, uploadFiles).
MaxUploads == 2
\* Number of snapshots the listener of the active chat room delivers.
MaxSnapshots == 4

(***************************************************************************)
(* The viewing user and the records of the bounded world.                  *)
(***************************************************************************)
uid == "u1"
otherUid == "u2"
NoEmail == ""
userEmail == "u1@altme.fyi"
userName == "Ann"
adminEmail == "ayn.eee.11@gmail.com"

(***************************************************************************)
(* Notification candidates: Omit<Notification, 'isRead'>.                  *)
(***************************************************************************)
Candidate(id, type, message, link, timestamp, recipientEmail, recipientName) ==
    [id |-> id, type |-> type, message |-> message, link |-> link,
     timestamp |-> timestamp, recipientEmail |-> recipientEmail,
     recipientName |-> recipientName]

\* { ...n, isRead: b }
WithIsRead(n, b) ==
    [id |-> n.id, type |-> n.type, message |-> n.message, link |-> n.link,
     timestamp |-> n.timestamp, recipientEmail |-> n.recipientEmail,
     recipientName |-> n.recipientName, isRead |-> b]

\* The fields of an entry other than isRead and the recipient fields.
Content(n) ==
    [type |-> n.type, message |-> n.message, link |-> n.link,
     timestamp |-> n.timestamp]

IdsOf(list) == { list[i].id : i \in 1..Len(list) }

(***************************************************************************)
(* A JavaScript Map keyed by id, modelled as the sequence of its values in *)
(* insertion order: set() on an existing key keeps that key's position.    *)
(***************************************************************************)
MapHas(m, id) == \E i \in 1..Len(m) : m[i].id = id

\* Faulty variants of MapSet: set() that always adds a new slot, and set()
\* that keeps the value already stored under the key.
MapSetAppend(m, n) == Append(m, n)

MapSetKeepFirst(m, n) == IF MapHas(m, n.id) THEN m ELSE Append(m, n)

MapSet(m, n) ==
    IF MapHas(m, n.id)
    THEN [i \in 1..Len(m) |-> IF m[i].id = n.id THEN n ELSE m[i]]
    ELSE Append(m, n)

RECURSIVE MapFromList(_, _)
MapFromList(m, list) ==
    IF list = <<>> THEN m
    ELSE MapFromList(MapSet(m, Head(list)), Tail(list))

(***************************************************************************)
(* Array.prototype.sort with comparator b.timestamp - a.timestamp: a       *)
(* stable sort, descending by timestamp.                                   *)
(***************************************************************************)
RECURSIVE InsertDesc(_, _)
InsertDesc(sorted, n) ==
    IF sorted = <<>> THEN <<n>>
    ELSE IF Head(sorted).timestamp >= n.timestamp
         THEN <<Head(sorted)>> \o InsertDesc(Tail(sorted), n)
         ELSE <<n>> \o sorted

\* Faulty variant of SortDesc: the values stay in the map's insertion order.
SortDescUnsorted(sorted, rest) == sorted \o rest

RECURSIVE SortDesc(_, _)
SortDesc(sorted, rest) ==
    IF rest = <<>> THEN sorted
    ELSE SortDesc(InsertDesc(sorted, Head(rest)), Tail(rest))


(***************************************************************************)
(* mergeNotifications: the updater passed to setAllNotifications.  It      *)
(* returns the next list together with the sequence of notifications it    *)
(* hands to sendEmailNotification, in call order.                          *)
(***************************************************************************)
\* Faulty variant of IsNew: every candidate counts as newly appeared.
IsNewAlways(notifsMap, newNotif) == TRUE

\* const isNew = !notifsMap.has(newNotif.id)
IsNew(notifsMap, newNotif) == ~MapHas(notifsMap, newNotif.id)

\* Faulty variant of ShouldNotify: the read-identity set is not consulted.
ShouldNotifyIgnoringRead(isNew, readIds, newNotif) == isNew

\* if (isNew && !readIds.has(newNotif.id))
ShouldNotify(isNew, readIds, newNotif) == isNew /\ newNotif.id \notin readIds

\* newNotifs.forEach(...), acc = [map, calls]
RECURSIVE MergeEach(_, _, _)
MergeEach(acc, newNotifs, readIds) ==
    IF newNotifs = <<>> THEN acc
    ELSE LET newNotif == Head(newNotifs)
             isNew    == IsNew(acc.map, newNotif)
         IN  MergeEach(
               [map   |-> MapSet(acc.map, newNotif),
                calls |-> IF ShouldNotify(isNew, readIds, newNotif)
                          THEN Append(acc.calls, WithIsRead(newNotif, FALSE))
                          ELSE acc.calls],
               Tail(newNotifs), readIds)

\* Faulty variant of Annotate: an entry that already carries isRead keeps it.
AnnotateKeep(values, readIds) ==
    [i \in 1..Len(values) |->
        WithIsRead(values[i],
                   IF "isRead" \in DOMAIN values[i] THEN values[i].isRead
                   ELSE values[i].id \in readIds)]

\* .map(n => ({ ...n, isRead: readIds.has(n.id) }))
Annotate(values, readIds) ==
    [i \in 1..Len(values) |-> WithIsRead(values[i], values[i].id \in readIds)]

\* Faulty variant of SeedMap: the map is not seeded from the previous list.
SeedMapEmpty(prevNotifs) == <<>>

\* prevNotifs.forEach(n => notifsMap.set(n.id, n))
SeedMap(prevNotifs) == MapFromList(<<>>, prevNotifs)

mergeNotifications(prevNotifs, newNotifs, readIds) ==
    LET acc == MergeEach([map |-> SeedMap(prevNotifs), calls |-> <<>>],
                         newNotifs, readIds)
    IN  [list  |-> SortDesc(<<>>, Annotate(acc.map, readIds)),
         calls |-> acc.calls]

(***************************************************************************)
(* sendEmailNotification.  The guard runs synchronously at the call; the   *)
(* write to the 'mail' collection is issued at the call; the identity is   *)
(* added to sentEmailsRef only after the awaited enqueue has completed.    *)
(***************************************************************************)
\* !( !firestore || !notification.recipientEmail || sentEmailsRef.current.has(id) )
\* (firestore is non-null whenever the subscription effect has installed listeners)
PassesSendGuard(sent, notification) ==
    /\ notification.recipientEmail # NoEmail
    /\ notification.id \notin sent

\* The identities for which one pass writes a request, in call order.
RECURSIVE RequestsOf(_, _)
RequestsOf(calls, sent) ==
    IF calls = <<>> THEN <<>>
    ELSE (IF PassesSendGuard(sent, Head(calls)) THEN <<Head(calls).id>> ELSE <<>>)
         \o RequestsOf(Tail(calls), sent)

\* Number of occurrences of id in a sequence of identities.
RECURSIVE CountIn(_, _)
CountIn(id, ids) ==
    IF ids = <<>> THEN 0
    ELSE (IF Head(ids) = id THEN 1 ELSE 0) + CountIn(id, Tail(ids))

SeqToSet(s) == { s[i] : i \in 1..Len(s) }

(***************************************************************************)
(* unreadCount = allNotifications.filter(n => !n.isRead).length            *)
(***************************************************************************)
IsUnread(n) == ~n.isRead

UnreadCountOf(list) == Len(SelectSeq(list, IsUnread))

(***************************************************************************)
(* User records (collection users).  hasReadIds tells whether the field    *)
(* readNotificationIds is present in the document.                         *)
(***************************************************************************)
UserDoc(role, email, hasReadIds, readIds, gigs, reviews, reports, contacts, disputes) ==
    [isNull |-> FALSE, role |-> role, email |-> email, name |-> userName,
     hasReadIds |-> hasReadIds, readNotificationIds |-> readIds,
     unreadGigsCount |-> gigs, pendingReviewCount |-> reviews,
     openReportsCount |-> reports, unreadContactSubmissionsCount |-> contacts,
     disputedProjectsCount |-> disputes]

\* useState<User | null>(null)
NullUser ==
    [isNull |-> TRUE, role |-> "", email |-> NoEmail, name |-> "",
     hasReadIds |-> FALSE, readNotificationIds |-> {},
     unreadGigsCount |-> 0, pendingReviewCount |-> 0,
     openReportsCount |-> 0, unreadContactSubmissionsCount |-> 0,
     disputedProjectsCount |-> 0]

\* new Set(userData?.readNotificationIds || [])
ReadIdsOf(data) == IF data.hasReadIds THEN data.readNotificationIds ELSE {}

(***************************************************************************)
(* The user-record producer (onSnapshot(userDocRef, ...)).  lookup is the  *)
(* outcome of the in-progress-gig query, which is run only for a non-admin *)
(* with unreadGigsCount === 1; t is the value of Timestamp.now().          *)
(***************************************************************************)
NoLookup == [kind |-> "none", id |-> "", title |-> ""]
LookupEmpty == [kind |-> "empty", id |-> "", title |-> ""]
LookupThrows == [kind |-> "throws", id |-> "", title |-> ""]
LookupFound(id, title) == [kind |-> "found", id |-> id, title |-> title]

\* Faulty variant of NeedsGigLookup: every positive counter is looked up.
NeedsGigLookupPositive(data) == data.role # "admin" /\ data.unreadGigsCount > 0

NeedsGigLookup(data) == data.role # "admin" /\ data.unreadGigsCount = 1

AdminCandidates(data, t) ==
    (IF data.openReportsCount > 0
     THEN <<Candidate("reports-" \o uid, "new_report",
              "There are " \o ToString(data.openReportsCount)
                 \o " open user reports to review.",
              "/admin/reports", t, adminEmail, data.name)>>
     ELSE <<>>)
    \o
    (IF data.unreadContactSubmissionsCount > 0
     THEN <<Candidate("contact-" \o uid, "new_contact_submission",
              "You have " \o ToString(data.unreadContactSubmissionsCount)
                 \o " new contact submission(s).",
              "/admin/inbox", t, adminEmail, data.name)>>
     ELSE <<>>)
    \o
    (IF data.disputedProjectsCount > 0
     THEN <<Candidate("disputes-" \o uid, "project_disputed",
              "There are " \o ToString(data.disputedProjectsCount)
                 \o " disputed projects requiring review.",
              "/admin/projects", t, adminEmail, data.name)>>
     ELSE <<>>)

GenericGig(data, message, t) ==
    Candidate("gigs-" \o uid, "gig_hired", message, "/requests", t,
              data.email, data.name)

GigCandidates(data, lookup, t) ==
    IF data.unreadGigsCount > 0
    THEN IF data.unreadGigsCount = 1
         THEN IF lookup.kind = "found"
              THEN <<Candidate("gig-" \o lookup.id, "gig_hired",
                       "You've been hired for \"" \o lookup.title \o "\"!",
                       "/requests/" \o lookup.id, t, data.email, data.name)>>
              ELSE <<GenericGig(data, "You have 1 new gig!", t)>>
         ELSE <<GenericGig(data,
                  "You have " \o ToString(data.unreadGigsCount) \o " new gigs!", t)>>
    ELSE <<>>

ReviewCandidates(data, t) ==
    IF data.pendingReviewCount > 0
    THEN <<Candidate("review-multi-" \o uid, "review_request",
             "You have " \o ToString(data.pendingReviewCount)
                \o " project(s) to review.",
             "/requests", t, data.email, data.name)>>
    ELSE <<>>

UserCandidates(data, lookup, t) ==
    IF data.role = "admin"
    THEN AdminCandidates(data, t)
    ELSE GigCandidates(data, lookup, t) \o ReviewCandidates(data, t)

(***************************************************************************)
(* Request records (collection requests) and processProjectSnapshot.       *)
(* A timestamp field that is absent is 0; participant tells whether the    *)
(* viewing user is in participantIds.                                      *)
(***************************************************************************)
Request(id, userId, hired, participant, bids, status, clientRev, photoRev, respondedAt, createdAt, resolvedAt, resolution) ==
    [id |-> id, title |-> "Shoot " \o id, userId |-> userId,
     hiredPhotographerId |-> hired, participant |-> participant,
     unreadBidsCount |-> bids, status |-> status,
     clientHasReviewed |-> clientRev, photographerHasReviewed |-> photoRev,
     photographerRespondedAt |-> respondedAt, createdAt |-> createdAt,
     disputeResolvedAt |-> resolvedAt, disputeResolution |-> resolution]

Quoted(title) == "\"" \o title \o "\""

DisputeMessage(request) ==
    IF request.disputeResolution = "refunded"
    THEN "Dispute for " \o Quoted(request.title) \o ": The client has been refunded."
    ELSE IF request.disputeResolution = "paid"
    THEN "Dispute for " \o Quoted(request.title) \o ": The photographer has been paid."
    ELSE "Dispute for " \o Quoted(request.title) \o " has been resolved."

\* Faulty variant of HasUnreadBids: the counter is not looked at.
HasUnreadBidsAlways(request) == TRUE

\* request.unreadBidsCount && request.unreadBidsCount > 0
HasUnreadBids(request) == request.unreadBidsCount > 0

\* The candidates one request document contributes, in push order.
RequestCandidates(request, closure, t) ==
    LET mk(id, type, message, link, ts) ==
            Candidate(id, type, message, link, ts, closure.email, closure.name)
        link == "/requests/" \o request.id
    IN
    (IF request.userId = uid /\ HasUnreadBids(request)
     THEN <<mk("bid-" \o request.id, "new_bid",
               ToString(request.unreadBidsCount) \o " new bid(s) on "
                  \o Quoted(request.title), link, t)>>
     ELSE <<>>)
    \o
    (IF request.userId = uid /\ request.status = "Delivered"
        /\ ~request.clientHasReviewed
     THEN <<mk("delivery-" \o request.id, "new_delivery",
               "Files have been delivered for " \o Quoted(request.title), link, t)>>
     ELSE <<>>)
    \o
    (IF request.userId = uid /\ request.photographerRespondedAt # 0
        /\ request.status = "Pending"
     THEN <<mk("booking-approved-" \o request.id, "direct_booking_approved",
               "Your booking request for " \o Quoted(request.title)
                  \o " was approved! Please complete the payment.",
               link, request.photographerRespondedAt)>>
     ELSE IF request.userId = uid /\ request.photographerRespondedAt # 0
             /\ request.status = "Disabled"
     THEN <<mk("booking-declined-" \o request.id, "direct_booking_declined",
               "Your booking request for " \o Quoted(request.title)
                  \o " was declined.",
               "/requests", request.photographerRespondedAt)>>
     ELSE <<>>)
    \o
    (IF request.hiredPhotographerId = uid /\ request.status = "Pending"
        /\ request.photographerRespondedAt = 0
     THEN <<mk("booking-" \o request.id, "direct_booking_request",
               "New direct booking request for " \o Quoted(request.title),
               link, request.createdAt)>>
     ELSE <<>>)
    \o
    (IF request.hiredPhotographerId = uid /\ request.status = "Delivered"
        /\ request.clientHasReviewed /\ ~request.photographerHasReviewed
     THEN <<mk("review-" \o request.id, "review_request",
               "The client has left a review for " \o Quoted(request.title)
                  \o ". Please leave your review to complete the project.",
               link, t)>>
     ELSE <<>>)
    \o
    (IF request.status = "Completed"
        /\ ~(request.clientHasReviewed /\ request.photographerHasReviewed)
     THEN <<mk("completed-" \o request.id, "project_completed",
               "Project " \o Quoted(request.title) \o " is complete!", link, t)>>
     ELSE <<>>)
    \o
    (IF request.disputeResolvedAt # 0
     THEN <<mk("dispute-res-" \o request.id, "dispute_resolved",
               DisputeMessage(request), link, request.disputeResolvedAt)>>
     ELSE <<>>)

\* snapshot.docs.forEach(...): the batch processProjectSnapshot merges.
RECURSIVE ProjectCandidates(_, _, _)
ProjectCandidates(docs, closure, t) ==
    IF docs = <<>> THEN <<>>
    ELSE RequestCandidates(Head(docs), closure, t)
         \o ProjectCandidates(Tail(docs), closure, t)

(***************************************************************************)
(* Chat rooms (collection chatRooms) and the chat-room producer.           *)
(* usersMap is a function from user ids to the cached user's name.         *)
(***************************************************************************)
Room(id, hasLast, senderId, timestamp, unread, isProjectChat, requestId) ==
    [id |-> id, hasLastMessage |-> hasLast, senderId |-> senderId,
     timestamp |-> timestamp, unread |-> unread,
     isProjectChat |-> isProjectChat, requestId |-> requestId]

EmptyUsersMap == [u \in {} |-> ""]

\* room.lastMessage && room.hasUnreadMessages && room.hasUnreadMessages[user.uid]
\*   && room.lastMessage.senderId !== user.uid
RoomNotifies(room) ==
    room.hasLastMessage /\ room.unread /\ room.senderId # uid

\* userIdsToFetch
UserIdsToFetch(rooms, cache) ==
    { rooms[i].senderId : i \in { j \in 1..Len(rooms) :
          RoomNotifies(rooms[j]) /\ rooms[j].senderId \notin DOMAIN cache } }

\* sender?.name || 'Someone', where fetched is the name that getDoc returned
\* ("" when the document is missing or has no name)
SenderName(room, cache, fetched) ==
    LET name == IF room.senderId \in DOMAIN cache THEN cache[room.senderId]
                ELSE fetched
    IN  IF name = "" THEN "Someone" ELSE name

ChatCandidate(room, senderName, closure) ==
    Candidate("msg-" \o room.id,
              IF room.isProjectChat THEN "project_chat" ELSE "direct_message",
              IF room.isProjectChat
              THEN "New message from " \o senderName \o " in your project chat."
              ELSE "New message from " \o senderName \o ".",
              IF room.isProjectChat THEN "/requests/" \o room.requestId
              ELSE "/messages/" \o room.id,
              room.timestamp, closure.email, closure.name)

RECURSIVE ChatCandidates(_, _, _, _)
ChatCandidates(rooms, cache, fetched, closure) ==
    IF rooms = <<>> THEN <<>>
    ELSE (IF RoomNotifies(Head(rooms))
          THEN <<ChatCandidate(Head(rooms),
                    SenderName(Head(rooms), cache, fetched), closure)>>
          ELSE <<>>)
         \o ChatCandidates(Tail(rooms), cache, fetched, closure)

(***************************************************************************)
(* The snapshots the bounded world delivers.                               *)
(***************************************************************************)
ReadSetA == {"bid-r1"}
ReadSetB == {"bid-r1", "gigs-" \o uid, "msg-c1"}

UserDocs ==
    { UserDoc("user", NoEmail, FALSE, {}, 0, 0, 0, 0, 0),
      UserDoc("user", userEmail, TRUE, ReadSetA, 1, 0, 0, 0, 0),
      UserDoc("user", NoEmail, TRUE, ReadSetB, 2, 1, 0, 0, 0),
      UserDoc("admin", userEmail, TRUE, {}, 0, 0, 0, 0, 2) }

GigLookups == { LookupEmpty, LookupThrows, LookupFound("p1", "Sunset Shoot") }

\* Documents matching where('userId', '==', user.uid)
OwnedDocs ==
    { Request("r1", uid, "", TRUE, 2, "Open", FALSE, FALSE, 0, 1, 0, ""),
      Request("r1", uid, "", TRUE, 0, "Open", FALSE, FALSE, 0, 1, 0, ""),
      Request("r1", uid, otherUid, TRUE, 1, "Delivered", FALSE, FALSE, 0, 1, 0, "") }

\* Documents matching where('participantIds', 'array-contains', user.uid)
InvolvedDocs ==
    { Request("r1", uid, "", TRUE, 2, "Open", FALSE, FALSE, 0, 1, 0, ""),
      Request("r2", otherUid, uid, TRUE, 0, "Pending", FALSE, FALSE, 0, 1, 0, "") }

\* A snapshot holds no document or one document.
SnapshotsOf(docs) == {<<>>} \cup { <<d>> : d \in docs }

\* lastMessage.timestamp is the time t at which the message was written.
ChatRooms(t) ==
    { Room("c1", TRUE, otherUid, t, TRUE, FALSE, ""),
      Room("c1", TRUE, otherUid, t, FALSE, FALSE, "") }

\* What a lookup of the sender's user document yields: it throws, the
\* document is missing, or it is found with the sender's name.
SenderLookups == { "throws", "missing", "found" }
senderName == "Bob"
FetchedName(outcome) == IF outcome = "found" THEN senderName ELSE ""

Producers == { "user", "owned", "involved", "chat" }

(***************************************************************************)
(* State of one mounted NotificationBell with a signed-in user.            *)
(*                                                                         *)
(* The updater given to setAllNotifications is run once per call, at the   *)
(* call (React's production behaviour), so a merge pass is one step.  An   *)
(* async callback is one step per stretch between awaits.  At most one     *)
(* user-record callback and one chat-room callback are in flight at a      *)
(* time, and a chat snapshot holds at most one room, so the chat callback  *)
(* awaits getDoc at most once.                                             *)
(***************************************************************************)
VARIABLES
    allNotifications,  \* useState<Notification[]>([])
    userData,          \* useState<User | null>(null)
    usersMap,          \* useState<Map<string, User>>(new Map())
    sentEmails,        \* sentEmailsRef.current
    isAnonymous,       \* user.isAnonymous
    eff,               \* userData and usersMap as captured by the closures of
                       \* the listeners the last run of the effect installed
    effectStale,       \* a dependency of the effect changed since its last run
    userCall,          \* user-record callback awaiting getDocs(newGigQuery)
    chatCall,          \* chat-room callback awaiting getDocs / getDoc
    pendingSends,      \* identities whose addDocumentNonBlocking is awaited
    mail,              \* bag of identities: requests written to 'mail'
    now,               \* the clock read by Timestamp.now()
    started,           \* number of listener callbacks started
    last,              \* history: the last merge pass
    latest,            \* history: identities of each producer's last batch
    source,            \* history: the snapshot the last merge pass came from
    failed,            \* listeners ended by an error since the effect ran
    events,            \* events given to errorEmitter.emit, in order
    isOpen,            \* useState(false): the dropdown is open
    readState,         \* users/<uid>.readNotificationIds as stored
    readWrites,        \* updateDocumentNonBlocking calls made, in order
    navigation,        \* the link last given to router.push, "" if none
    ui,                \* history: the last call of a UI handler
    undelivered,       \* history: identities whose enqueueing has failed
    user,              \* useUser().user: the uid of the viewer, "" if none
    portfolio,         \* usePortfolioMediaUpload: the profile and its uploads
    upload,            \* useRequestMediaUpload: isUploading, calls and toasts
    adminPage,         \* AdminUsersPage: allUsers, userToDelete, the users collection
    messagesPage       \* MessagesPage: the active chat room and its listener

\* Variables only the UI handlers and the listeners' error callbacks write.
uiVars == <<events, isOpen, readState, readWrites, navigation, ui>>

vars == <<allNotifications, userData, usersMap, sentEmails, isAnonymous, eff,
          effectStale, userCall, chatCall, pendingSends, mail, now, started,
          last, latest, source, failed, events, isOpen, readState, readWrites,
          navigation, ui, undelivered, user, portfolio, upload, adminPage,
          messagesPage>>

\* The variables of NotificationBell.
bellVars == <<allNotifications, userData, usersMap, sentEmails, isAnonymous,
              eff, effectStale, userCall, chatCall, pendingSends, mail, now,
              started, last, latest, source, failed, events, isOpen, readState,
              readWrites, navigation, ui, undelivered, user>>

\* Variables that no callback and no handler of NotificationBell writes: the
\* viewer and the state of the other hooks and pages.
pageVars == <<user, portfolio, upload, adminPage, messagesPage>>

\* torn: the effect has run again (its cleanup has unsubscribed the listener)
\* since the callback started.
NoUserCall == [active |-> FALSE, data |-> NullUser, torn |-> FALSE]

NoChatCall ==
    [active |-> FALSE, stage |-> "", rooms |-> <<>>, readIds |-> {},
     closure |-> NullUser, cache |-> EmptyUsersMap, torn |-> FALSE]

NoPass ==
    [producer |-> "none", prev |-> <<>>, batch |-> <<>>, readIds |-> {},
     requests |-> <<>>, persisted |-> {}, repeat |-> FALSE]

\* The snapshot a merge pass came from: the user record and the outcome of
\* the gig lookup, or the request documents, or the chat rooms; errors is
\* the number of events emitted before the pass.
NoSource ==
    [user |-> NullUser, lookup |-> NoLookup, docs |-> <<>>, rooms |-> <<>>,
     errors |-> 0]
UserSource(doc, lookup) ==
    [NoSource EXCEPT !.user = doc, !.lookup = lookup, !.errors = Len(events)]
ProjectSource(docs) == [NoSource EXCEPT !.docs = docs, !.errors = Len(events)]
ChatSource(rooms) == [NoSource EXCEPT !.rooms = rooms, !.errors = Len(events)]

\* The last call of a handler of the dropdown: the list and the stored record
\* it found, its arguments and the writes it issued.
NoHandler == [n |-> 0, handler |-> "none", open |-> FALSE, list |-> <<>>,
              id |-> "", link |-> "", writes |-> <<>>, stored |-> {}]

\* The other hooks and pages before anything has happened in them.
NoPortfolio == [stored |-> 0, profileCount |-> 0, calls |-> <<>>, isUploading |-> FALSE]

NoUpload == [isUploading |-> FALSE, calls |-> <<>>, toasts |-> <<>>]

\* AdminUsersPage before the users are fetched; the collection is empty.
NoAdminPage ==
    [users |-> {}, allUsers |-> <<>>, userToDelete |-> "", calls |-> <<>>,
     events |-> <<>>, toasts |-> <<>>, n |-> 0]

\* A chatRooms document as the active-room effect reads it: docSnap.exists(),
\* isProjectChat, requestId, and the uids whose hasUnreadMessages flag is true.
RoomDoc(exists, isProjectChat, requestId, unreadFor) ==
    [exists |-> exists, isProjectChat |-> isProjectChat,
     requestId |-> requestId, unreadFor |-> unreadFor]

NoRoomDoc == RoomDoc(FALSE, FALSE, "", {})

\* MessagesPage with no active chat room.
NoMessagesPage ==
    [store |-> NoRoomDoc, delivered |-> FALSE, seen |-> NoRoomDoc,
     hasPartner |-> FALSE, activeChatRoom |-> NoRoomDoc,
     snaps |-> <<>>, calls |-> <<>>, writes |-> <<>>, pushes |-> <<>>]

PagesIdle ==
    /\ portfolio = NoPortfolio
    /\ upload = NoUpload
    /\ adminPage = NoAdminPage
    /\ messagesPage = NoMessagesPage

BellInit ==
    /\ allNotifications = <<>>
    /\ userData = NullUser
    /\ usersMap = EmptyUsersMap
    /\ sentEmails = {}
    /\ isAnonymous \in BOOLEAN
    /\ eff = [userData |-> NullUser, usersMap |-> EmptyUsersMap]
    /\ effectStale = FALSE
    /\ userCall = NoUserCall
    /\ chatCall = NoChatCall
    /\ pendingSends = {}
    /\ mail = EmptyBag
    /\ now = 1
    /\ started = 0
    /\ last = NoPass
    /\ latest = [p \in Producers |-> {}]
    /\ source = NoSource
    /\ failed = {}
    /\ events = <<>>
    /\ isOpen = FALSE
    /\ readState = ReadSetA
    /\ readWrites = <<>>
    /\ navigation = ""
    /\ ui = NoHandler
    /\ undelivered = {}
    /\ user = uid

Init == BellInit /\ PagesIdle

\* Timestamp.now(): the clock has not moved since it was last read, or it
\* has moved on.  Only the order of timestamps is observed (by the sort), so
\* one step per reading covers every order.
ClockReadings == {now} \cup (IF now < MaxTime THEN {now + 1} ELSE {})

RECURSIVE AddRequests(_, _)
AddRequests(bag, ids) ==
    IF ids = <<>> THEN bag
    ELSE AddRequests(bag (+) SetToBag({Head(ids)}), Tail(ids))

(***************************************************************************)
(* One merge pass: mergeNotifications(batch, readIds) called by producer,  *)
(* with the calls to sendEmailNotification it makes.  persisted is the     *)
(* read-identity set of the most recently delivered user record; repeat    *)
(* records that the pass was given the batch and the read-identity set of  *)
(* the pass before it.                                                     *)
(***************************************************************************)
MergePass(producer, batch, readIds, persisted) ==
    LET r        == mergeNotifications(allNotifications, batch, readIds)
        requests == RequestsOf(r.calls, sentEmails)
    IN  /\ allNotifications' = r.list
        /\ mail' = AddRequests(mail, requests)
        /\ pendingSends' = pendingSends \cup SeqToSet(requests)
        /\ last' = [producer |-> producer, prev |-> allNotifications,
                    batch |-> batch, readIds |-> readIds,
                    requests |-> requests, persisted |-> persisted,
                    repeat |-> (/\ last.producer # "none"
                                /\ batch = last.batch
                                /\ readIds = last.readIds)]
        /\ latest' = IF producer \in Producers
                     THEN [latest EXCEPT ![producer] = IdsOf(batch)]
                     ELSE latest
        /\ UNCHANGED sentEmails

\* The effect's dependency userData?.readNotificationIds is compared by
\* reference: every delivered array is a new one, undefined equals undefined.
ReadIdsRefChanged(old, new) == old.hasReadIds \/ new.hasReadIds

(***************************************************************************)
(* onSnapshot(userDocRef, async (doc) => ...), document exists.            *)
(***************************************************************************)
UserSnapshot(doc) ==
    /\ started < MaxPasses
    /\ "user" \notin failed
    /\ ~userCall.active
    /\ started' = started + 1
    /\ userData' = doc
    /\ effectStale' = (effectStale \/ ReadIdsRefChanged(userData, doc))
    /\ IF NeedsGigLookup(doc)
       THEN /\ userCall' = [active |-> TRUE, data |-> doc, torn |-> FALSE]
            /\ UNCHANGED <<allNotifications, mail, pendingSends, last, latest,
                           sentEmails, now, source>>
       ELSE /\ \E t \in ClockReadings :
                 /\ now' = t
                 /\ MergePass("user", UserCandidates(doc, NoLookup, t),
                              ReadIdsOf(doc), ReadIdsOf(doc))
            /\ source' = UserSource(doc, NoLookup)
            /\ UNCHANGED userCall
    /\ UNCHANGED <<usersMap, isAnonymous, eff, chatCall, failed, uiVars, undelivered, pageVars>>

\* The awaited getDocs(newGigQuery) settles and the callback finishes.
UserLookupDone(lookup) ==
    /\ userCall.active
    /\ \E t \in ClockReadings :
          /\ now' = t
          /\ MergePass("user", UserCandidates(userCall.data, lookup, t),
                       ReadIdsOf(userCall.data), ReadIdsOf(userData))
    /\ source' = UserSource(userCall.data, lookup)
    /\ userCall' = NoUserCall
    /\ UNCHANGED <<userData, usersMap, isAnonymous, eff, effectStale, chatCall,
                   started, failed, uiVars, undelivered, pageVars>>

(***************************************************************************)
(* onSnapshot(myOwnedProjectsQuery, ...) and                               *)
(* onSnapshot(myInvolvedProjectsQuery, ...): installed for a non-anonymous *)
(* user; readIds and the recipient fields come from the captured userData. *)
(***************************************************************************)
ProjectSnapshot(producer, docs, t) ==
    /\ ~isAnonymous
    /\ started < MaxPasses
    /\ producer \notin failed
    /\ started' = started + 1
    /\ now' = t
    /\ MergePass(producer, ProjectCandidates(docs, eff.userData, t),
                 ReadIdsOf(eff.userData), ReadIdsOf(userData))
    /\ source' = ProjectSource(docs)
    /\ UNCHANGED <<userData, usersMap, isAnonymous, eff, effectStale, userCall,
                   chatCall, failed, uiVars, undelivered, pageVars>>

OwnedSnapshot ==
    \E t \in ClockReadings : \E docs \in SnapshotsOf(OwnedDocs) :
        ProjectSnapshot("owned", docs, t)

InvolvedSnapshot ==
    \E t \in ClockReadings : \E docs \in SnapshotsOf(InvolvedDocs) :
        ProjectSnapshot("involved", docs, t)

(***************************************************************************)
(* onSnapshot(chatRoomsQuery, async (snapshot) => ...).                    *)
(***************************************************************************)
ChatSnapshot(rooms, t) ==
    /\ ~isAnonymous
    /\ started < MaxPasses
    /\ "chat" \notin failed
    /\ ~chatCall.active
    /\ started' = started + 1
    /\ now' = t
    /\ IF UserIdsToFetch(rooms, eff.usersMap) # {}
       THEN /\ chatCall' = [active |-> TRUE, stage |-> "users", rooms |-> rooms,
                            readIds |-> ReadIdsOf(eff.userData),
                            closure |-> eff.userData, cache |-> eff.usersMap,
                            torn |-> FALSE]
            /\ UNCHANGED <<allNotifications, mail, pendingSends, last, latest,
                           sentEmails, source>>
       ELSE /\ MergePass("chat",
                         ChatCandidates(rooms, eff.usersMap, "", eff.userData),
                         ReadIdsOf(eff.userData), ReadIdsOf(userData))
            /\ source' = ChatSource(rooms)
            /\ UNCHANGED chatCall
    /\ UNCHANGED <<userData, usersMap, isAnonymous, eff, effectStale, userCall,
                   failed, uiVars, undelivered, pageVars>>

\* The awaited getDocs(usersQuery) settles: on success setUsersMap(newUsers),
\* on failure the error is logged.
ChatUsersDone(outcome) ==
    /\ chatCall.active /\ chatCall.stage = "users"
    /\ chatCall' = [chatCall EXCEPT !.stage = "sender"]
    /\ IF outcome = "throws"
       THEN UNCHANGED <<usersMap, effectStale>>
       ELSE /\ usersMap' =
                 IF outcome = "found"
                 THEN [u \in DOMAIN chatCall.cache
                              \cup UserIdsToFetch(chatCall.rooms, chatCall.cache) |->
                          IF u \in DOMAIN chatCall.cache THEN chatCall.cache[u]
                          ELSE senderName]
                 ELSE chatCall.cache
            /\ effectStale' = TRUE
    /\ UNCHANGED <<allNotifications, userData, sentEmails, isAnonymous, eff,
                   userCall, pendingSends, mail, now, started, last, latest,
                   source, failed, uiVars, undelivered, pageVars>>

\* The awaited getDoc(doc(firestore, 'users', senderId)) settles: a rejection
\* ends the callback without a merge.
ChatSenderDone(outcome) ==
    /\ chatCall.active /\ chatCall.stage = "sender"
    /\ chatCall' = NoChatCall
    /\ IF outcome = "throws"
       THEN UNCHANGED <<allNotifications, mail, pendingSends, last, latest,
                        sentEmails, source>>
       ELSE /\ MergePass("chat",
                         ChatCandidates(chatCall.rooms, chatCall.cache,
                                        FetchedName(outcome), chatCall.closure),
                         chatCall.readIds, ReadIdsOf(userData))
            /\ source' = ChatSource(chatCall.rooms)
    /\ UNCHANGED <<userData, usersMap, isAnonymous, eff, effectStale, userCall,
                   now, started, failed, uiVars, undelivered, pageVars>>

(***************************************************************************)
(* The effect runs again after a render in which one of its dependencies   *)
(* changed: the old listeners are unsubscribed and new ones capture the    *)
(* current userData and usersMap.                                          *)
(***************************************************************************)
EffectRerun ==
    /\ effectStale
    /\ eff' = [userData |-> userData, usersMap |-> usersMap]
    /\ effectStale' = FALSE
    /\ failed' = {}
    /\ userCall' = [userCall EXCEPT !.torn = userCall.active]
    /\ chatCall' = [chatCall EXCEPT !.torn = chatCall.active]
    /\ UNCHANGED <<allNotifications, userData, usersMap, sentEmails,
                   isAnonymous, pendingSends, mail, now,
                   started, last, latest, source, uiVars, undelivered, pageVars>>

(***************************************************************************)
(* The awaited addDocumentNonBlocking settles inside sendEmailNotification *)
(* : on success the identity is added to sentEmailsRef, on failure the     *)
(* error is logged.                                                        *)
\* Faulty variant of SentAfter: the identity is recorded although the
\* enqueueing failed.
SentAfterAlways(sent, id, ok) == sent \cup {id}

\* sentEmailsRef.current.add(notification.id) after the awaited write, skipped
\* when the write throws.
SentAfter(sent, id, ok) == IF ok THEN sent \cup {id} ELSE sent

(***************************************************************************)
EnqueueDone(id, ok) ==
    /\ id \in pendingSends
    /\ pendingSends' = pendingSends \ {id}
    /\ sentEmails' = SentAfter(sentEmails, id, ok)
    /\ undelivered' = IF ok THEN undelivered ELSE undelivered \cup {id}
    /\ UNCHANGED <<allNotifications, userData, usersMap, isAnonymous, eff,
                   effectStale, userCall, chatCall, mail, now, started, last,
                   latest, source, failed, uiVars, pageVars>>

UserSnapshotAny == \E doc \in UserDocs : UserSnapshot(doc)
UserLookupDoneAny == \E lookup \in GigLookups : UserLookupDone(lookup)
ChatSnapshotAny ==
    \E t \in ClockReadings : \E rooms \in SnapshotsOf(ChatRooms(t)) :
        ChatSnapshot(rooms, t)
ChatUsersDoneAny == \E outcome \in SenderLookups : ChatUsersDone(outcome)
ChatSenderDoneAny == \E outcome \in SenderLookups : ChatSenderDone(outcome)
EnqueueDoneAny == \E id \in pendingSends, ok \in BOOLEAN : EnqueueDone(id, ok)

Next ==
    \/ UserSnapshotAny
    \/ UserLookupDoneAny
    \/ OwnedSnapshot
    \/ InvolvedSnapshot
    \/ ChatSnapshotAny
    \/ ChatUsersDoneAny
    \/ ChatSenderDoneAny
    \/ EffectRerun
    \/ EnqueueDoneAny

Spec == Init /\ [][Next]_vars

(***************************************************************************)
(* The listeners' error callbacks: handleSnapshotError(error, queryName,   *)
(* queryPath).  Firestore ends a listener with the error it reports, so    *)
(* the listener fires no more until the effect installs a new one.         *)
(***************************************************************************)
\* Faulty variant of QueryPath: the user listener reports the collection.
QueryPathCollection(producer) ==
    IF producer = "user" THEN "users"
    ELSE IF producer = "chat" THEN "chatRooms" ELSE "requests"

\* The queryPath each listener's error callback passes.
QueryPath(producer) ==
    IF producer = "user" THEN "users/" \o uid
    ELSE IF producer = "chat" THEN "chatRooms" ELSE "requests"

\* emit('permission-error', new FirestorePermissionError({path, operation}))
PermissionError(path) ==
    [event |-> "permission-error", path |-> path, operation |-> "list"]

SnapshotError(producer) ==
    /\ started < MaxPasses
    /\ producer \notin failed
    /\ producer = "user" \/ ~isAnonymous
    /\ started' = started + 1
    /\ events' = Append(events, PermissionError(QueryPath(producer)))
    /\ failed' = failed \cup {producer}
    /\ UNCHANGED <<allNotifications, userData, usersMap, sentEmails,
                   isAnonymous, eff, effectStale, userCall, chatCall,
                   pendingSends, mail, now, last, latest, source, isOpen,
                   readState, readWrites, navigation, ui, undelivered,
                   pageVars>>

SnapshotErrorAny == \E producer \in Producers : SnapshotError(producer)

(***************************************************************************)
(* The read-state mutator: the handlers of the dropdown.  A handler sees   *)
(* the list of the current render.  updateDocumentNonBlocking starts the   *)
(* write and returns; the write is applied to the stored record or fails.  *)
(***************************************************************************)
\* Faulty variant of UnreadIds: the filter on isRead is missing.
UnreadIdsUnfiltered(list) == IdsOf(list)

\* allNotifications.filter(n => !n.isRead).map(n => n.id)
UnreadIds(list) == { list[i].id : i \in { j \in 1..Len(list) : ~list[j].isRead } }

\* arrayUnion(...ids) applied to the stored readNotificationIds.
arrayUnion(stored, ids) == stored \cup ids

\* Faulty variant of handleMarkAsRead: the check of unreadIds.length is
\* missing.
handleMarkAsReadUnchecked(list) ==
    IF Len(list) = 0 THEN <<>> ELSE <<UnreadIds(list)>>

\* handleMarkAsRead: the sets of identities it gives to
\* updateDocumentNonBlocking, in call order.
handleMarkAsRead(list) ==
    IF Len(list) = 0 THEN <<>>
    ELSE LET unreadIds == UnreadIds(list)
         IN  IF unreadIds = {} THEN <<>> ELSE <<unreadIds>>

\* Faulty variant of ShouldMarkAsRead: every change of the dropdown marks.
ShouldMarkAsReadAnyChange(open, unreadCount) == unreadCount > 0

\* if (!open && unreadCount > 0)
ShouldMarkAsRead(open, unreadCount) == ~open /\ unreadCount > 0

\* Faulty variant of SelectWrites: the item is opened without a write.
SelectWritesNone(notifId) == <<>>

\* handleItemSelect: the sets of identities it gives to
\* updateDocumentNonBlocking, in call order.
SelectWrites(notifId) == <<{notifId}>>

\* The stored record once the writes have been applied.
RECURSIVE Stored(_, _)
Stored(stored, writes) ==
    IF writes = <<>> THEN stored
    ELSE Stored(arrayUnion(stored, Head(writes)), Tail(writes))

IssueWrites(writes) ==
    /\ readWrites' = readWrites \o writes
    /\ readState' = Stored(readState, writes)

\* onOpenChange={handleOpenChange}: called when the dropdown opens or closes.
handleOpenChange(open) ==
    /\ ui.n < MaxUserActions
    /\ open # isOpen
    /\ isOpen' = open
    /\ LET unreadCount == UnreadCountOf(allNotifications)
           writes == IF ShouldMarkAsRead(open, unreadCount)
                     THEN handleMarkAsRead(allNotifications) ELSE <<>>
       IN  /\ IssueWrites(writes)
           /\ ui' = [n |-> ui.n + 1, handler |-> "handleOpenChange",
                     open |-> open, list |-> allNotifications,
                     id |-> "", link |-> "", writes |-> writes,
                     stored |-> readState]
    /\ UNCHANGED <<allNotifications, userData, usersMap, sentEmails,
                   isAnonymous, eff, effectStale, userCall, chatCall,
                   pendingSends, mail, now, started, last, latest, source,
                   failed, events, navigation, undelivered, pageVars>>

\* onSelect={(e) => handleItemSelect(e, notif.link, notif.id)} of an item of
\* the open dropdown.
handleItemSelect(link, notifId) ==
    /\ ui.n < MaxUserActions
    /\ isOpen
    /\ LET writes == SelectWrites(notifId)
       IN  /\ IssueWrites(writes)
           /\ ui' = [n |-> ui.n + 1, handler |-> "handleItemSelect",
                     open |-> FALSE, list |-> allNotifications,
                     id |-> notifId, link |-> link, writes |-> writes,
                     stored |-> readState]
    /\ navigation' = link
    /\ isOpen' = FALSE
    /\ UNCHANGED <<allNotifications, userData, usersMap, sentEmails,
                   isAnonymous, eff, effectStale, userCall, chatCall,
                   pendingSends, mail, now, started, last, latest, source,
                   failed, events, undelivered, pageVars>>

handleOpenChangeAny == \E open \in BOOLEAN : handleOpenChange(open)
handleItemSelectAny ==
    \E i \in 1..Len(allNotifications) :
        handleItemSelect(allNotifications[i].link, allNotifications[i].id)

(***************************************************************************)
(* The component of a photographer whose unread-gig counter stays at 1:    *)
(* every user record delivered has unreadGigsCount = 1.                    *)
(***************************************************************************)
OneGigDocs == { d \in UserDocs : d.unreadGigsCount = 1 }
OneGigSnapshot == \E doc \in OneGigDocs : UserSnapshot(doc)

GigNext ==
    \/ OneGigSnapshot
    \/ UserLookupDoneAny
    \/ OwnedSnapshot
    \/ InvolvedSnapshot
    \/ ChatSnapshotAny
    \/ ChatUsersDoneAny
    \/ ChatSenderDoneAny
    \/ EffectRerun
    \/ EnqueueDoneAny

GigSpec == Init /\ [][GigNext]_vars

(***************************************************************************)
(* The component with its dropdown in use: the listeners of a signed-in    *)
(* user, their error callbacks and the handlers of the dropdown.  The      *)
(* snapshots are the ones that bring unread and read entries: a user       *)
(* record with read identities, a request with unread bids, a booking      *)
(* request, a chat room with an unread message.  The settling of the mail  *)
(* writes is left out: no handler or error callback reads sentEmailsRef.   *)
(***************************************************************************)
SignedInDocs == { d \in UserDocs : d.role = "user" /\ d.hasReadIds }
UnreadBidDocs == { d \in OwnedDocs : d.unreadBidsCount = 2 }
BookingDocs == { d \in InvolvedDocs : d.userId # uid }
UnreadRooms(t) == { r \in ChatRooms(t) : r.unread }

SignedInSnapshot == \E doc \in SignedInDocs : UserSnapshot(doc)
UnreadBidSnapshot == \E d \in UnreadBidDocs : ProjectSnapshot("owned", <<d>>, now)
BookingSnapshot == \E d \in BookingDocs : ProjectSnapshot("involved", <<d>>, now)
UnreadRoomSnapshot == \E r \in UnreadRooms(now) : ChatSnapshot(<<r>>, now)

AppInit == Init /\ ~isAnonymous

AppNext ==
    \/ SignedInSnapshot
    \/ UserLookupDoneAny
    \/ UnreadBidSnapshot
    \/ BookingSnapshot
    \/ UnreadRoomSnapshot
    \/ ChatUsersDoneAny
    \/ ChatSenderDoneAny
    \/ EffectRerun
    \/ SnapshotErrorAny
    \/ handleOpenChangeAny
    \/ handleItemSelectAny

AppSpec == AppInit /\ [][AppNext]_vars

(***************************************************************************)
(* The component while the viewer changes: useUser() returns another user  *)
(* or none, the effect's cleanup unsubscribes the listeners and the effect *)
(* runs again for the new viewer.  No state of the component is set by the *)
(* change.  The listeners of the new viewer deliver nothing yet.           *)
(***************************************************************************)
NoUser == ""

UserChange(newUser) ==
    /\ user = uid
    /\ user' = newUser
    /\ eff' = [userData |-> userData, usersMap |-> usersMap]
    /\ effectStale' = FALSE
    /\ failed' = {}
    /\ userCall' = [userCall EXCEPT !.torn = userCall.active]
    /\ chatCall' = [chatCall EXCEPT !.torn = chatCall.active]
    /\ UNCHANGED <<allNotifications, userData, usersMap, sentEmails,
                   isAnonymous, pendingSends, mail, now, started, last,
                   latest, source, uiVars, undelivered, portfolio,
                   upload, adminPage, messagesPage>>

UserChangeAny == \E newUser \in {otherUid, NoUser} : UserChange(newUser)

SameViewerNext == user = uid /\ Next

SwitchNext ==
    \/ SameViewerNext
    \/ UserChangeAny

SwitchSpec == Init /\ [][SwitchNext]_vars

(***************************************************************************)
(* The component with the user listener delivering the stored record: the  *)
(* readNotificationIds of every user-record snapshot are the ones the      *)
(* writes of the handlers have left in the store.                          *)
(***************************************************************************)
StoredDoc(doc) ==
    [doc EXCEPT !.hasReadIds = TRUE, !.readNotificationIds = readState]

StoredSnapshot == \E doc \in SignedInDocs : UserSnapshot(StoredDoc(doc))

ReadNext ==
    \/ StoredSnapshot
    \/ UserLookupDoneAny
    \/ UnreadBidSnapshot
    \/ BookingSnapshot
    \/ EffectRerun
    \/ handleOpenChangeAny
    \/ handleItemSelectAny

ReadSpec == AppInit /\ [][ReadNext]_vars

(***************************************************************************)
(* usePortfolioMediaUpload (src/unnamed/part_000).  stored is the number   *)
(* of items under photographerProfiles/<id>/portfolioItems, profileCount   *)
(* the length of profile.portfolioItemIds of the profile value the hook    *)
(* was last rendered with.  An invocation of handleFileChange uploads its  *)
(* files one after the other; invocations may overlap.  calls records for  *)
(* each invocation the count it saw, the number of files it was given, the *)
(* number it set out to upload and the number still to go.                 *)
(***************************************************************************)
MAX_PORTFOLIO_ITEMS == 10

Min(a, b) == IF a <= b THEN a ELSE b

\* MAX_PORTFOLIO_ITEMS - currentItemCount
remainingSlots(currentItemCount) == MAX_PORTFOLIO_ITEMS - currentItemCount

\* Array.from(files).slice(0, remainingSlots).length
filesToUpload(files, slots) == Min(files, slots)

\* The profile holds 8, 9 or 10 items when the page is opened.
PortfolioStarts ==
    { [NoPortfolio EXCEPT !.stored = c, !.profileCount = c] :
        c \in (MAX_PORTFOLIO_ITEMS - 2)..MAX_PORTFOLIO_ITEMS }

FileCounts == {1, 2, 3}

handleFileChange(files) ==
    /\ Len(portfolio.calls) < MaxUploads
    /\ LET slots == remainingSlots(portfolio.profileCount)
           n     == IF slots <= 0 THEN 0 ELSE filesToUpload(files, slots)
       IN  portfolio' =
             [portfolio EXCEPT
                !.calls = Append(@, [seen |-> portfolio.profileCount,
                                     files |-> files, planned |-> n, left |-> n]),
                !.isUploading = IF slots <= 0 THEN @ ELSE TRUE]
    /\ UNCHANGED <<bellVars, upload, adminPage, messagesPage>>

\* One file of an invocation has gone through uploadBytes, getDownloadURL
\* and set(newItemRef, newItemData), or one of them has thrown; after the
\* last file the finally block runs.
FileDone(i, ok) ==
    /\ i \in DOMAIN portfolio.calls
    /\ portfolio.calls[i].left > 0
    /\ portfolio' =
          [portfolio EXCEPT
             !.stored = IF ok THEN @ + 1 ELSE @,
             !.calls[i].left = @ - 1,
             !.isUploading = IF portfolio.calls[i].left = 1 THEN FALSE ELSE @]
    /\ UNCHANGED <<bellVars, upload, adminPage, messagesPage>>

\* The hook is rendered with a profile value that reflects the stored items.
ProfileRefreshed ==
    /\ portfolio.profileCount # portfolio.stored
    /\ portfolio' = [portfolio EXCEPT !.profileCount = portfolio.stored]
    /\ UNCHANGED <<bellVars, upload, adminPage, messagesPage>>

handleFileChangeAny == \E files \in FileCounts : handleFileChange(files)
FileDoneAny == \E i \in DOMAIN portfolio.calls, ok \in BOOLEAN : FileDone(i, ok)

PortfolioInit ==
    /\ BellInit /\ ~isAnonymous
    /\ portfolio \in PortfolioStarts
    /\ upload = NoUpload
    /\ adminPage = NoAdminPage
    /\ messagesPage = NoMessagesPage

PortfolioNext ==
    \/ handleFileChangeAny
    \/ FileDoneAny
    \/ ProfileRefreshed

PortfolioSpec == PortfolioInit /\ [][PortfolioNext]_vars

(***************************************************************************)
(* useRequestMediaUpload (src/src/hooks/use-request-media-upload.ts).      *)
(* uploadFiles maps every file to a promise and awaits Promise.all: the    *)
(* files settle in any order; the call completes when the last file has    *)
(* succeeded or as soon as one file has failed.  A call records its files, *)
(* the outcome of each file, the media gathered so far, whether it has     *)
(* completed and what it returned.                                         *)
(***************************************************************************)
ImageFile == [name |-> "a.jpg", mime |-> "image/jpeg"]
VideoFile == [name |-> "b.mp4", mime |-> "video/mp4"]

FileLists ==
    { <<>>, <<ImageFile>>, <<VideoFile>>, <<ImageFile, VideoFile>>,
      <<VideoFile, ImageFile>> }

\* file.type.startsWith('image/') ? 'image' : 'video'
MediaType(file) == IF file.mime \in {"image/jpeg", "image/png"} THEN "image" ELSE "video"

\* What the steps of one file's promise come to: every step succeeded; or
\* captureVideoFrame returned null; or uploadBytes / getDownloadURL of the
\* file threw; or captureVideoFrame or the upload of the thumbnail threw.
FileOutcomes(file) ==
    IF MediaType(file) = "video"
    THEN {"ok", "noThumbnail", "uploadFails", "thumbnailFails"}
    ELSE {"ok", "uploadFails"}

Fulfils(outcome) == outcome \in {"ok", "noThumbnail"}

\* The ReferenceMedia a fulfilled promise returns.
ReferenceMedia(file, outcome) ==
    [url |-> "url:" \o file.name,
     thumbnailUrl |-> IF MediaType(file) = "video" /\ outcome = "ok"
                      THEN "thumb:" \o file.name ELSE "",
     type |-> MediaType(file), name |-> file.name]

NoMedia == [url |-> "", thumbnailUrl |-> "", type |-> "", name |-> ""]

\* Faulty variant of Gather: the values are gathered in the order in which
\* the promises are fulfilled.
GatherInCompletionOrder(gathered, i, media) ==
    LET free == { j \in DOMAIN gathered : gathered[j] = NoMedia }
        k    == CHOOSE j \in free : \A l \in free : j <= l
    IN  [gathered EXCEPT ![k] = media]

\* Promise.all: the value of the i-th promise is the i-th value of the result.
Gather(gathered, i, media) == [gathered EXCEPT ![i] = media]

uploadFiles(files) ==
    /\ Len(upload.calls) < MaxUploads
    /\ upload' =
          IF Len(files) = 0
          THEN [upload EXCEPT
                  !.calls = Append(@, [files |-> files, outcomes |-> <<>>,
                                       gathered |-> <<>>, done |-> TRUE,
                                       result |-> <<>>])]
          ELSE [upload EXCEPT
                  !.isUploading = TRUE,
                  !.calls = Append(@,
                     [files |-> files,
                      outcomes |-> [i \in DOMAIN files |-> "pending"],
                      gathered |-> [i \in DOMAIN files |-> NoMedia],
                      done |-> FALSE, result |-> <<>>])]
    /\ UNCHANGED <<bellVars, portfolio, adminPage, messagesPage>>

\* The promise of file i of call c settles.  A rejection rejects Promise.all
\* at once: the catch block raises the toast and returns []; the fulfilment
\* of the last file fulfils it; either way the finally block runs.
FileSettled(c, i, outcome) ==
    /\ c \in DOMAIN upload.calls
    /\ ~upload.calls[c].done
    /\ i \in DOMAIN upload.calls[c].files
    /\ upload.calls[c].outcomes[i] = "pending"
    /\ outcome \in FileOutcomes(upload.calls[c].files[i])
    /\ LET call     == upload.calls[c]
           outcomes == [call.outcomes EXCEPT ![i] = outcome]
           gathered == IF Fulfils(outcome)
                       THEN Gather(call.gathered, i,
                                   ReferenceMedia(call.files[i], outcome))
                       ELSE call.gathered
           all      == \A j \in DOMAIN outcomes : outcomes[j] # "pending"
       IN  IF ~Fulfils(outcome)
           THEN upload' =
                  [upload EXCEPT
                     !.calls[c] = [call EXCEPT !.outcomes = outcomes,
                                               !.done = TRUE, !.result = <<>>],
                     !.toasts = Append(@, "Upload Failed"),
                     !.isUploading = FALSE]
           ELSE IF all
           THEN upload' =
                  [upload EXCEPT
                     !.calls[c] = [call EXCEPT !.outcomes = outcomes,
                                               !.gathered = gathered,
                                               !.done = TRUE,
                                               !.result = gathered],
                     !.isUploading = FALSE]
           ELSE upload' =
                  [upload EXCEPT
                     !.calls[c] = [call EXCEPT !.outcomes = outcomes,
                                               !.gathered = gathered]]
    /\ UNCHANGED <<bellVars, portfolio, adminPage, messagesPage>>

uploadFilesAny == \E files \in FileLists : uploadFiles(files)
FileSettledAny ==
    \E c \in DOMAIN upload.calls :
        \E i \in DOMAIN upload.calls[c].files :
            \E outcome \in FileOutcomes(upload.calls[c].files[i]) :
                FileSettled(c, i, outcome)

UploadInit ==
    /\ BellInit /\ ~isAnonymous
    /\ portfolio = NoPortfolio
    /\ upload = NoUpload
    /\ adminPage = NoAdminPage
    /\ messagesPage = NoMessagesPage

UploadNext ==
    \/ uploadFilesAny
    \/ FileSettledAny

UploadSpec == UploadInit /\ [][UploadNext]_vars

(***************************************************************************)
(* AdminUsersPage (src/src/app/(app)/admin/users/page.tsx).  'users' is    *)
(* the users collection, allUsers the fetched list, userToDelete the id of *)
(* the user the confirmation dialog is open for ("" for null), calls the   *)
(* invocations of handleDeleteUser that reached updateDoc.                 *)
(***************************************************************************)
AdminUser(id, status) == [id |-> id, status |-> status]

FetchedUsers ==
    << AdminUser(uid, "active"), AdminUser(otherUid, "active"),
       AdminUser("u3", "deleted") >>

AdminStart ==
    [NoAdminPage EXCEPT !.users = SeqToSet(FetchedUsers),
                        !.allUsers = FetchedUsers]

\* allUsers?.filter(user => user.status !== 'deleted')
activeUsers(allUsers) == SelectSeq(allUsers, LAMBDA u : u.status # "deleted")

\* Faulty variant of MarkDeleted: the user is dropped from the list.
MarkDeletedDropped(allUsers, id) == SelectSeq(allUsers, LAMBDA u : u.id # id)

\* prev.map(u => u.id === userToDelete.id ? {...u, status: 'deleted'} : u)
MarkDeleted(allUsers, id) ==
    [i \in DOMAIN allUsers |->
        IF allUsers[i].id = id
        THEN [allUsers[i] EXCEPT !.status = "deleted"]
        ELSE allUsers[i]]

\* updateDoc(userDocRef, { status: 'deleted' }) on the collection.
updateDoc(users, id) ==
    { IF u.id = id THEN [u EXCEPT !.status = "deleted"] ELSE u : u \in users }

\* userDocRef.path of doc(firestore, 'users', id)
UserDocPath(id) == "users/" \o id

\* onClick={() => setUserToDelete(user)} of a row of the active-users table.
SelectUserToDelete(id) ==
    /\ \E i \in DOMAIN activeUsers(adminPage.allUsers) :
          activeUsers(adminPage.allUsers)[i].id = id
    /\ adminPage.userToDelete # id
    /\ adminPage' = [adminPage EXCEPT !.userToDelete = id]
    /\ UNCHANGED <<bellVars, portfolio, upload, messagesPage>>

\* onOpenChange={(open) => !open && setUserToDelete(null)}
DialogClosed ==
    /\ adminPage.userToDelete # ""
    /\ adminPage' = [adminPage EXCEPT !.userToDelete = ""]
    /\ UNCHANGED <<bellVars, portfolio, upload, messagesPage>>

\* handleDeleteUser up to the await of updateDoc.
handleDeleteUser ==
    /\ adminPage.n < MaxUserActions
    /\ adminPage' =
          IF adminPage.userToDelete = ""
          THEN [adminPage EXCEPT !.n = @ + 1]
          ELSE [adminPage EXCEPT
                  !.n = @ + 1,
                  !.calls = Append(@, [id |-> adminPage.userToDelete,
                                       state |-> "pending"])]
    /\ UNCHANGED <<bellVars, portfolio, upload, messagesPage>>

\* updateDoc settles: the rest of the try block, or the catch block; and
\* the finally block.
UpdateDone(c, ok) ==
    /\ c \in DOMAIN adminPage.calls
    /\ adminPage.calls[c].state = "pending"
    /\ LET id == adminPage.calls[c].id
       IN  adminPage' =
             IF ok
             THEN [adminPage EXCEPT
                     !.users = updateDoc(@, id),
                     !.allUsers = MarkDeleted(@, id),
                     !.toasts = Append(@, "User Disabled"),
                     !.calls[c].state = "written",
                     !.userToDelete = ""]
             ELSE [adminPage EXCEPT
                     !.events = Append(@, [name |-> "permission-error",
                                           operation |-> "update",
                                           path |-> UserDocPath(id)]),
                     !.calls[c].state = "rejected",
                     !.userToDelete = ""]
    /\ UNCHANGED <<bellVars, portfolio, upload, messagesPage>>

SelectUserToDeleteAny == \E id \in {uid, otherUid, "u3"} : SelectUserToDelete(id)
UpdateDoneAny ==
    \E c \in DOMAIN adminPage.calls : \E ok \in BOOLEAN : UpdateDone(c, ok)

AdminInit ==
    /\ BellInit /\ ~isAnonymous
    /\ portfolio = NoPortfolio
    /\ upload = NoUpload
    /\ adminPage = AdminStart
    /\ messagesPage = NoMessagesPage

AdminNext ==
    \/ SelectUserToDeleteAny
    \/ DialogClosed
    \/ handleDeleteUser
    \/ UpdateDoneAny

AdminSpec == AdminInit /\ [][AdminNext]_vars

(***************************************************************************)
(* MessagesPage, the effect of the active chat room (src/unnamed/part_001).*)
(* 'store' is the room document as the client sees it, 'seen' the document *)
(* last delivered to the listener and 'delivered' whether the listener of  *)
(* the present run of the effect has delivered one; hasPartner is          *)
(* usersMap.has(partnerId).  snaps, calls, writes and pushes record the    *)
(* snapshots handled, the callbacks waiting for getDoc, the batches        *)
(* committed and the routes pushed, each with the snapshot it belongs to.  *)
(***************************************************************************)
RoomStarts ==
    { NoRoomDoc,
      RoomDoc(TRUE, TRUE, "r1", {uid}),
      RoomDoc(TRUE, FALSE, "", {uid, otherUid}),
      RoomDoc(TRUE, FALSE, "", {otherUid}),
      RoomDoc(TRUE, FALSE, "", {}) }

\* Faulty variant of ShouldMarkRead: every snapshot marks the room read.
ShouldMarkReadAlways(room, currentUid) == TRUE

\* room.hasUnreadMessages && room.hasUnreadMessages[currentUser.uid]
ShouldMarkRead(room, currentUid) == currentUid \in room.unreadFor

\* `hasUnreadMessages.${currentUser.uid}`
UnreadField(currentUid) == "hasUnreadMessages." \o currentUid

\* The block "Mark messages as read" for snapshot k: the batch is applied
\* to the client's view of the document when it is committed.
MarkRead(page, k) ==
    IF ShouldMarkRead(page.snaps[k], uid)
    THEN [page EXCEPT
            !.writes = Append(@, [of |-> k, field |-> UnreadField(uid),
                                  value |-> FALSE, state |-> "pending"]),
            !.store = IF @.exists
                      THEN [@ EXCEPT !.unreadFor = @ \ {uid}] ELSE @]
    ELSE page

\* The listener delivers the document: the callback up to its first await.
RoomSnapshot ==
    /\ Len(messagesPage.snaps) < MaxSnapshots
    /\ ~messagesPage.delivered \/ messagesPage.seen # messagesPage.store
    /\ LET room == messagesPage.store
           k    == Len(messagesPage.snaps) + 1
           got  == [messagesPage EXCEPT !.snaps = Append(@, room),
                                        !.delivered = TRUE,
                                        !.seen = room]
       IN  messagesPage' =
             IF ~room.exists
             THEN [got EXCEPT !.pushes = Append(@, [of |-> k, to |-> "/messages"])]
             ELSE IF room.isProjectChat
             THEN [got EXCEPT !.pushes =
                     Append(@, [of |-> k, to |-> "/requests/" \o room.requestId])]
             ELSE IF ~messagesPage.hasPartner
             THEN [got EXCEPT !.activeChatRoom = room,
                              !.calls = Append(@, [of |-> k, state |-> "awaiting"])]
             ELSE MarkRead([got EXCEPT !.activeChatRoom = room], k)
    /\ UNCHANGED <<bellVars, portfolio, upload, adminPage>>

\* getDoc of the partner settles and the callback resumes.  Setting
\* usersMap re-runs the effect, whose new listener delivers the document
\* again; the callback of the old listener still runs to its end.
PartnerDone(c, outcome) ==
    /\ c \in DOMAIN messagesPage.calls
    /\ messagesPage.calls[c].state = "awaiting"
    /\ LET k      == messagesPage.calls[c].of
           resumed == [messagesPage EXCEPT !.calls[c].state = "done"]
       IN  messagesPage' =
             CASE outcome = "throws"  -> resumed
               [] outcome = "missing" -> MarkRead(resumed, k)
               [] outcome = "found"   ->
                    MarkRead([resumed EXCEPT !.hasPartner = TRUE,
                                             !.delivered = FALSE], k)
    /\ UNCHANGED <<bellVars, portfolio, upload, adminPage>>

\* batch.commit() settles; a rejected batch is taken back from the client's
\* view of the document unless another batch on the field is pending.
CommitDone(w, ok) ==
    /\ w \in DOMAIN messagesPage.writes
    /\ messagesPage.writes[w].state = "pending"
    /\ LET others == \E v \in DOMAIN messagesPage.writes :
                         v # w /\ messagesPage.writes[v].state = "pending"
       IN  messagesPage' =
             IF ok
             THEN [messagesPage EXCEPT !.writes[w].state = "committed"]
             ELSE [messagesPage EXCEPT
                     !.writes[w].state = "rejected",
                     !.store = IF @.exists /\ ~others
                               THEN [@ EXCEPT !.unreadFor = @ \cup {uid}]
                               ELSE @]
    /\ UNCHANGED <<bellVars, portfolio, upload, adminPage>>

\* The partner sends a message: the flag of the current user becomes true.
PartnerMessage ==
    /\ messagesPage.store.exists
    /\ ~messagesPage.store.isProjectChat
    /\ uid \notin messagesPage.store.unreadFor
    /\ messagesPage' = [messagesPage EXCEPT !.store.unreadFor = @ \cup {uid}]
    /\ UNCHANGED <<bellVars, portfolio, upload, adminPage>>

\* The effect of the chat list sets usersMap: the effect of the active room
\* re-runs and its new listener delivers the document again.
ListUsersFetched ==
    /\ ~messagesPage.hasPartner
    /\ messagesPage' = [messagesPage EXCEPT !.hasPartner = TRUE,
                                            !.delivered = FALSE]
    /\ UNCHANGED <<bellVars, portfolio, upload, adminPage>>

PartnerDoneAny ==
    \E c \in DOMAIN messagesPage.calls :
        \E outcome \in {"found", "missing", "throws"} : PartnerDone(c, outcome)
CommitDoneAny ==
    \E w \in DOMAIN messagesPage.writes : \E ok \in BOOLEAN : CommitDone(w, ok)

MessagesInit ==
    /\ BellInit /\ ~isAnonymous
    /\ portfolio = NoPortfolio
    /\ upload = NoUpload
    /\ adminPage = NoAdminPage
    /\ \E room \in RoomStarts : \E known \in BOOLEAN :
          messagesPage = [NoMessagesPage EXCEPT !.store = room,
                                               !.hasPartner = known]

MessagesNext ==
    \/ RoomSnapshot
    \/ PartnerDoneAny
    \/ CommitDoneAny
    \/ PartnerMessage
    \/ ListUsersFetched

MessagesSpec == MessagesInit /\ [][MessagesNext]_vars

(***************************************************************************)
(* mergeNotifications on its own: the callback is called with any batch    *)
(* of candidates (identities may repeat inside a batch) and any            *)
(* read-identity set, starting from the empty list.                        *)
(***************************************************************************)
PureIds == {"bid-r1", "msg-c1"}
PureTimes == {1, 2}
PureReadSets == {{}, {"bid-r1"}}

\* Version v of the candidate with identity id: its message and timestamp
\* vary with v; the chat candidate carries no recipient e-mail.
PureCandidate(id, v) ==
    Candidate(id,
              IF id = "bid-r1" THEN "new_bid" ELSE "direct_message",
              "message " \o ToString(v),
              IF id = "bid-r1" THEN "/requests/r1" ELSE "/messages/c1",
              v,
              IF id = "bid-r1" THEN userEmail ELSE NoEmail,
              userName)

PureCandidates == { PureCandidate(id, v) : id \in PureIds, v \in PureTimes }

Batches ==
    {<<>>} \cup { <<a>> : a \in PureCandidates }
           \cup { <<a, b>> : a \in PureCandidates, b \in PureCandidates }

MergeCall(batch, readIds) ==
    /\ started < MaxPasses
    /\ started' = started + 1
    /\ MergePass("direct", batch, readIds, readIds)
    /\ source' = NoSource
    /\ UNCHANGED <<userData, usersMap, isAnonymous, eff, effectStale, userCall,
                   chatCall, now, failed, uiVars, undelivered, pageVars>>

MergeCallAny == \E batch \in Batches, readIds \in PureReadSets :
                   MergeCall(batch, readIds)

MergeInit == Init /\ ~isAnonymous

MergeNext ==
    \/ MergeCallAny
    \/ EnqueueDoneAny

MergeSpec == MergeInit /\ [][MergeNext]_vars

(***************************************************************************)
(* Vocabulary of the properties.                                           *)
(***************************************************************************)
PassDone == last.producer # "none"

\* The entry of list with identity id (id \in IdsOf(list)).
EntryOf(list, id) == list[CHOOSE i \in 1..Len(list) : list[i].id = id]

\* The first and the last candidate of batch with identity id.
FirstWithId(batch, id) ==
    batch[CHOOSE i \in 1..Len(batch) :
            /\ batch[i].id = id
            /\ \A j \in 1..Len(batch) : batch[j].id = id => i <= j]

LastWithId(batch, id) ==
    batch[CHOOSE i \in 1..Len(batch) :
            /\ batch[i].id = id
            /\ \A j \in 1..Len(batch) : batch[j].id = id => j <= i]

\* The identity-keyed mapping a list stands for.
ByIdentity(list) ==
    { [id |-> list[i].id, content |-> Content(list[i]), isRead |-> list[i].isRead] :
        i \in 1..Len(list) }

\* Identities of the last batch that were absent from the list and from the
\* read-identity set given to the pass.
FirstAppearances == (IdsOf(last.batch) \ IdsOf(last.prev)) \ last.readIds

(***************************************************************************)
(* C1 (as stated).  In a merge pass every identity of the batch that is    *)
(* absent from the previous list and from the read-identity set gets       *)
(* exactly one request written to 'mail', every other identity of the      *)
(* batch gets none.                                                        *)
(***************************************************************************)
C1_DeliveryOnFirstAppearance_Original ==
    \A id \in IdsOf(last.batch) :
        CountIn(id, last.requests) = IF id \in FirstAppearances THEN 1 ELSE 0

(***************************************************************************)
(* C1 (amended).  In a merge pass every identity of the batch that is      *)
(* absent from the previous list and from the read-identity set and whose  *)
(* candidate carries a recipient e-mail address gets exactly one request   *)
(* written to 'mail'; every other identity of the batch gets none.         *)
(***************************************************************************)
C1_DeliveryOnFirstAppearance ==
    \A id \in IdsOf(last.batch) :
        CountIn(id, last.requests) =
            IF /\ id \in FirstAppearances
               /\ FirstWithId(last.batch, id).recipientEmail # NoEmail
            THEN 1 ELSE 0

\* A pass that delivered one first appearance and held back an identity
\* that is in the read-identity set.
C1_Witness ==
    /\ PassDone
    /\ \E id \in FirstAppearances : CountIn(id, last.requests) = 1
    /\ \E id \in IdsOf(last.batch) \cap last.readIds :
          CountIn(id, last.requests) = 0

(***************************************************************************)
(* C2.  Within one session no identity has more than one request written   *)
(* to 'mail', whatever the order of the producers' callbacks and of the    *)
(* completions of the awaited enqueues.                                    *)
(***************************************************************************)
C2_AtMostOncePerSession ==
    \A id \in BagToSet(mail) : CopiesIn(id, mail) <= 1

\* An identity is merged again while the enqueue of its request is still
\* awaited, and still has one request only.
C2_Witness ==
    /\ PassDone
    /\ \E id \in IdsOf(last.batch) \cap IdsOf(last.prev) :
          /\ id \in pendingSends
          /\ id \notin sentEmails
          /\ CopiesIn(id, mail) = 1

(***************************************************************************)
(* C3.  The reconciled list never holds two entries with the same          *)
(* identity.                                                               *)
(***************************************************************************)
C3_NoDuplicateIdentity ==
    \A i, j \in 1..Len(allNotifications) :
        allNotifications[i].id = allNotifications[j].id => i = j

\* A pass whose batch repeats an identity of the list, next to another entry.
C3_Witness ==
    /\ PassDone
    /\ IdsOf(last.batch) \cap IdsOf(last.prev) # {}
    /\ Len(allNotifications) >= 2

(***************************************************************************)
(* C4.  The identities of the reconciled list are exactly the identities   *)
(* of the producers' most recent batches: an identity that is no longer in *)
(* its producer's latest batch is no longer in the list.                   *)
(***************************************************************************)
C4_LatestCandidatesView ==
    IdsOf(allNotifications) = UNION { latest[p] : p \in Producers }

(***************************************************************************)
(* C5.  After every merge pass, an entry is flagged isRead exactly when    *)
(* its identity is in readNotificationIds of the most recently delivered   *)
(* user record, whichever producer triggered the pass.                     *)
(***************************************************************************)
C5_ReadAnnotation ==
    PassDone =>
        \A i \in 1..Len(allNotifications) :
            allNotifications[i].isRead <=> allNotifications[i].id \in last.persisted

(***************************************************************************)
(* C6.  The badge value unreadCount is the number of identities of the     *)
(* list that are not in the read-identity set of the last merge pass.      *)
(***************************************************************************)
C6_UnreadCounter ==
    UnreadCountOf(allNotifications)
        = Cardinality(IdsOf(allNotifications) \ last.readIds)

\* A list with a read entry and an unread entry.
C6_Witness ==
    /\ PassDone
    /\ UnreadCountOf(allNotifications) >= 1
    /\ UnreadCountOf(allNotifications) < Len(allNotifications)
    /\ last.readIds \cap IdsOf(allNotifications) # {}

(***************************************************************************)
(* C7.  Merging two batches with disjoint identities in either order,      *)
(* with the same read-identity set, yields the same identity-keyed         *)
(* mapping.  The pass that produced the current list merged last.batch     *)
(* into last.prev; it is compared, for every batch B disjoint from         *)
(* last.batch, with merging B first.                                       *)
(***************************************************************************)
DisjointBatches(a, b) == IdsOf(a) \cap IdsOf(b) = {}

MergeThen(list, first, second, readIds) ==
    mergeNotifications(mergeNotifications(list, first, readIds).list,
                       second, readIds).list

C7_DisjointMergesCommute ==
    PassDone =>
        \A b \in Batches :
            DisjointBatches(last.batch, b) =>
                ByIdentity(mergeNotifications(allNotifications, b, last.readIds).list)
                  = ByIdentity(MergeThen(last.prev, b, last.batch, last.readIds))

\* Two non-empty disjoint batches merged into a non-empty list, where the
\* two orders give lists that differ as sequences.
C7_Witness ==
    /\ PassDone
    /\ last.prev # <<>>
    /\ last.batch # <<>>
    /\ \E b \in Batches :
          /\ b # <<>>
          /\ DisjointBatches(last.batch, b)
          /\ mergeNotifications(allNotifications, b, last.readIds).list
               # MergeThen(last.prev, b, last.batch, last.readIds)

(***************************************************************************)
(* C8.  Merging the batch of the previous pass again, with the same        *)
(* read-identity set, leaves the list (its entries and their isRead flags) *)
(* as it was and writes no request to 'mail'.                              *)
(***************************************************************************)
C8_MergeIdempotent ==
    last.repeat => /\ allNotifications = last.prev
                   /\ last.requests = <<>>

\* A batch holding an identity whose request was written earlier in the
\* session is merged a second time.
C8_Witness ==
    /\ last.repeat
    /\ \E id \in IdsOf(last.batch) : CopiesIn(id, mail) = 1

(***************************************************************************)
(* C9 (as stated).  A merge pass leaves every entry whose identity is not  *)
(* in the batch unchanged: same type, message, link, timestamp and isRead. *)
(***************************************************************************)
Untouched == { i \in 1..Len(last.prev) : last.prev[i].id \notin IdsOf(last.batch) }

C9_FrameOfMerge_Original ==
    \A i \in Untouched :
        /\ last.prev[i].id \in IdsOf(allNotifications)
        /\ Content(EntryOf(allNotifications, last.prev[i].id)) = Content(last.prev[i])
        /\ EntryOf(allNotifications, last.prev[i].id).isRead = last.prev[i].isRead

(***************************************************************************)
(* C9 (amended).  A merge pass leaves every entry whose identity is not in *)
(* the batch in the list with the same type, message, link and timestamp,  *)
(* whichever producer triggered the pass; its isRead is recomputed from    *)
(* the read-identity set the producer supplied.                            *)
(***************************************************************************)
C9_FrameOfMerge ==
    \A i \in Untouched :
        /\ last.prev[i].id \in IdsOf(allNotifications)
        /\ Content(EntryOf(allNotifications, last.prev[i].id)) = Content(last.prev[i])
        /\ EntryOf(allNotifications, last.prev[i].id).isRead
             = (last.prev[i].id \in last.readIds)

\* A pass with a non-empty batch next to an entry it does not touch, whose
\* isRead flag the pass has changed.
C9_Witness ==
    /\ PassDone
    /\ last.batch # <<>>
    /\ \E i \in Untouched :
          EntryOf(allNotifications, last.prev[i].id).isRead # last.prev[i].isRead

(***************************************************************************)
(* C10.  After a merge pass every identity of the batch has, in the list,  *)
(* the type, message, link and timestamp of the last candidate of the      *)
(* batch with that identity.                                               *)
(***************************************************************************)
C10_LastWriteWins ==
    \A id \in IdsOf(last.batch) :
        /\ id \in IdsOf(allNotifications)
        /\ Content(EntryOf(allNotifications, id)) = Content(LastWithId(last.batch, id))

\* A batch with two different candidates of one identity, which the list
\* held before with values other than those of the last candidate.
C10_Witness ==
    /\ PassDone
    /\ \E id \in IdsOf(last.batch) \cap IdsOf(last.prev) :
          /\ Content(FirstWithId(last.batch, id)) # Content(LastWithId(last.batch, id))
          /\ Content(EntryOf(last.prev, id)) # Content(LastWithId(last.batch, id))


(***************************************************************************)
(* C11.  After every merge pass the list is sorted by timestamp,           *)
(* non-increasing: each entry's timestamp is at least that of the entry    *)
(* after it.                                                               *)
(***************************************************************************)
C11_SortedDescending ==
    \A i \in 1..(Len(allNotifications) - 1) :
        allNotifications[i].timestamp >= allNotifications[i + 1].timestamp

\* A pass placed a newly appeared entry ahead of an older one it kept.
C11_Witness ==
    /\ PassDone
    /\ Len(allNotifications) >= 2
    /\ allNotifications[1].timestamp > allNotifications[2].timestamp
    /\ allNotifications[1].id \notin IdsOf(last.prev)
    /\ allNotifications[2].id \in IdsOf(last.prev)


(***************************************************************************)
(* Vocabulary of the read-state properties.                                *)
(***************************************************************************)
Closed == ui.handler = "handleOpenChange" /\ ~ui.open
Selected == ui.handler = "handleItemSelect"
UnreadSeen == { ui.list[i].id : i \in { j \in DOMAIN ui.list : ui.list[j].isRead = FALSE } }
ReadSeen == { ui.list[i].id : i \in { j \in DOMAIN ui.list : ui.list[j].isRead = TRUE } }

(***************************************************************************)
(* C12.  With no unread entry in the list, handleMarkAsRead issues no      *)
(* read-state write, and neither does closing the dropdown through         *)
(* handleOpenChange(false).                                                *)
(***************************************************************************)
C12_NoWriteWithoutUnread ==
    /\ (\A i \in DOMAIN allNotifications : allNotifications[i].isRead)
          => handleMarkAsRead(allNotifications) = <<>>
    /\ (Closed /\ UnreadSeen = {}) => ui.writes = <<>>

\* The dropdown was closed over a list that is not empty and all read.
C12_Witness ==
    /\ Closed
    /\ ui.list # <<>>
    /\ UnreadSeen = {}
    /\ readWrites = <<>>

(***************************************************************************)
(* C13.  Closing the dropdown over a list with at least one unread entry   *)
(* issues exactly one read-state write; the identities it adds are exactly *)
(* those of the entries with isRead = false; the write is a union, so the  *)
(* stored record keeps every identity it held.                             *)
(***************************************************************************)
C13_BulkMarkWritesUnread ==
    (Closed /\ UnreadSeen # {}) =>
        /\ ui.writes = <<UnreadSeen>>
        /\ ui.stored \subseteq readState
        /\ readState = ui.stored \cup UnreadSeen

\* The dropdown was closed over a list with read and unread entries while
\* the stored record held an identity that is not in the list.
C13_Witness ==
    /\ Closed
    /\ UnreadSeen # {}
    /\ ReadSeen # {}
    /\ ui.stored \ IdsOf(ui.list) # {}
    /\ Len(readWrites) = 1

(***************************************************************************)
(* C14.  handleItemSelect issues exactly one read-state write, adding      *)
(* exactly the selected item's identity, and navigates to the item's link. *)
(* No call of a handler of the dropdown changes the list or an isRead flag.*)
(***************************************************************************)
C14_SelectWritesOneAndFrame ==
    [][ui'.n # ui.n =>
        /\ allNotifications' = allNotifications
        /\ ui'.handler = "handleItemSelect" =>
              /\ readWrites' = Append(readWrites, {ui'.id})
              /\ navigation' = ui'.link
              /\ \E i \in DOMAIN allNotifications :
                    /\ allNotifications[i].id = ui'.id
                    /\ allNotifications[i].link = ui'.link]_vars

\* An unread item was selected from a list of several entries.
C14_Witness ==
    /\ Selected
    /\ ui.id \in UnreadSeen
    /\ Len(ui.list) >= 2
    /\ navigation = ui.link
    /\ allNotifications = ui.list

(***************************************************************************)
(* C15.  Every read-state write is issued by a call of a handler: closing  *)
(* the dropdown while the list has an unread entry, or selecting an item.  *)
(* No listener callback, merge pass or error callback issues one, and      *)
(* opening the dropdown issues none.                                       *)
(***************************************************************************)
C15_WritesOnlyByUserAction ==
    [][readWrites' # readWrites =>
        /\ ui'.n = ui.n + 1
        /\ \/ ui'.handler = "handleItemSelect"
           \/ /\ ui'.handler = "handleOpenChange"
              /\ ~ui'.open
              /\ \E i \in DOMAIN allNotifications : ~allNotifications[i].isRead]_vars

\* The dropdown was opened over unread entries without a write, and merge
\* passes ran before and after, the last one after the opening.
C15_Witness ==
    /\ ui.handler = "handleOpenChange" /\ ui.open
    /\ UnreadSeen # {}
    /\ PassDone
    /\ allNotifications # ui.list
    /\ readWrites = <<>>

(***************************************************************************)
(* C18.  An error of a listener emits exactly one 'permission-error' event *)
(* with the path of that listener (users/<uid>, requests, chatRooms) and   *)
(* the operation 'list'; no merge pass runs and the list is unchanged.     *)
(* The other listeners keep firing and their batches are merged.           *)
(***************************************************************************)
C18_ListenerErrorReported ==
    [][events' # events =>
        /\ \E p \in Producers \ failed :
              /\ failed' = failed \cup {p}
              /\ events' = Append(events,
                    [event |-> "permission-error",
                     path |-> CASE p = "user" -> "users/" \o uid
                                [] p \in {"owned", "involved"} -> "requests"
                                [] p = "chat" -> "chatRooms",
                     operation |-> "list"])
        /\ allNotifications' = allNotifications
        /\ last' = last]_vars

\* After the error of the user listener a batch of another listener was
\* merged into the list.
C18_Witness ==
    /\ "user" \in failed
    /\ Len(events) = 1
    /\ source.errors = 1
    /\ last.producer \in Producers \ failed
    /\ IdsOf(last.batch) # {}
    /\ IdsOf(last.batch) \subseteq IdsOf(allNotifications)


(***************************************************************************)
(* C16.  Bid scenario.  For a request r of a snapshot, owned by the        *)
(* viewing user and with unreadBidsCount = n > 0, the batch of the project *)
(* producer holds exactly one candidate bid-r, with the message            *)
(* n new bid(s) on "<title>" and the link /requests/r; for a request with  *)
(* counter 0 it holds no candidate bid-r.  When both the owned and the     *)
(* involved listener last delivered bid-r, the list holds one bid-r entry. *)
(***************************************************************************)
BidsFor(batch, request) ==
    SelectSeq(batch, LAMBDA n : n.id = "bid-" \o request.id)

C16_BidScenario ==
    /\ last.producer \in {"owned", "involved"} =>
          \A i \in DOMAIN source.docs :
              LET request == source.docs[i]
                  bids    == BidsFor(last.batch, request)
              IN  IF request.userId = uid /\ request.unreadBidsCount > 0
                  THEN /\ Len(bids) = 1
                       /\ bids[1].message =
                            ToString(request.unreadBidsCount)
                               \o " new bid(s) on \"" \o request.title \o "\""
                       /\ bids[1].link = "/requests/" \o request.id
                  ELSE bids = <<>>
    /\ \A id \in latest["owned"] \cap latest["involved"] :
          Cardinality({ i \in DOMAIN allNotifications :
                          allNotifications[i].id = id }) = 1

\* The involved listener delivered the owned request r1 with two unread bids
\* after the owned listener had, and the list holds bid-r1.
C16_Witness ==
    /\ last.producer = "involved"
    /\ "bid-r1" \in latest["owned"] \cap latest["involved"]
    /\ \E i \in DOMAIN source.docs :
          source.docs[i].id = "r1" /\ source.docs[i].unreadBidsCount = 2
    /\ "bid-r1" \in IdsOf(last.prev)
    /\ "bid-r1" \in IdsOf(allNotifications)


(***************************************************************************)
(* C17.  Gig scenario.  For a user record that is not an admin's: with     *)
(* unreadGigsCount = 1 the lookup is made, and the batch holds exactly one *)
(* gig candidate: gig-p, You've been hired for "<title>"!, /requests/p     *)
(* when the lookup returned project p; gigs-<uid>, You have 1 new gig!,    *)
(* /requests when it returned nothing or threw.  With unreadGigsCount > 1  *)
(* the batch holds gigs-<uid> and no lookup is made; with 0 it holds no    *)
(* gig candidate.                                                          *)
(***************************************************************************)
GigsOf(batch) == SelectSeq(batch, LAMBDA n : n.type = "gig_hired")

C17_GigScenario ==
    (last.producer = "user" /\ source.user.role # "admin") =>
        LET count  == source.user.unreadGigsCount
            lookup == source.lookup
            gigs   == GigsOf(last.batch)
        IN  IF count = 1
            THEN /\ lookup.kind \in {"found", "empty", "throws"}
                 /\ Len(gigs) = 1
                 /\ IF lookup.kind = "found"
                    THEN /\ gigs[1].id = "gig-" \o lookup.id
                         /\ gigs[1].message =
                              "You've been hired for \"" \o lookup.title \o "\"!"
                         /\ gigs[1].link = "/requests/" \o lookup.id
                    ELSE /\ gigs[1].id = "gigs-" \o uid
                         /\ gigs[1].message = "You have 1 new gig!"
                         /\ gigs[1].link = "/requests"
            ELSE IF count > 1
            THEN /\ lookup = NoLookup
                 /\ Len(gigs) = 1
                 /\ gigs[1].id = "gigs-" \o uid
            ELSE lookup = NoLookup /\ gigs = <<>>

\* A user record with one unread gig was produced after its lookup returned
\* a project, and a record with two unread gigs without a lookup.
C17_Witness ==
    /\ last.producer = "user"
    /\ source.user.unreadGigsCount = 2
    /\ source.lookup = NoLookup
    /\ "gig-p1" \in IdsOf(last.prev)
    /\ "gigs-" \o uid \in IdsOf(last.batch)


(***************************************************************************)
(* C19.  Producer determinism.  Two successive runs of one producer on the *)
(* same snapshot (the same user record, the same request documents, the    *)
(* same chat rooms) yield batches with the same identities and the same    *)
(* messages, whatever the outcome of the lookups they await, the contents  *)
(* of the users cache and the clock.                                       *)
(***************************************************************************)
Production(batch) == { <<batch[i].id, batch[i].message>> : i \in DOMAIN batch }

SameSnapshot(a, b) == a.user = b.user /\ a.docs = b.docs /\ a.rooms = b.rooms

C19_ProducerDeterminism ==
    [][(/\ last.producer \in Producers
        /\ last'.producer = last.producer
        /\ SameSnapshot(source', source))
          => Production(last'.batch) = Production(last.batch)]_vars


(***************************************************************************)
(* C20.  Identity stability.  While the unread-gig counter of the user     *)
(* record stays at 1, the list never holds both an entry gig-<projectId>   *)
(* and an entry gigs-<uid>, however many user-record snapshots have been   *)
(* merged.                                                                 *)
(***************************************************************************)
C20_IdentityStability ==
    ~ \E i, j \in DOMAIN allNotifications :
          /\ allNotifications[i].id = "gigs-" \o uid
          /\ allNotifications[j].type = "gig_hired"
          /\ allNotifications[j].id # "gigs-" \o uid


(***************************************************************************)
(* C21.  Lookup failure inside a producer.  Whatever the outcome of the    *)
(* lookup a callback awaits (the gig query, the batched sender query, the  *)
(* getDoc of one sender), the step that ends the callback is a merge pass  *)
(* whose batch holds the candidate of the record: a gig candidate for the  *)
(* user record, msg-<room> for each room with an unread message.           *)
(***************************************************************************)
C21_LookupFailureFallsBack ==
    [][/\ (userCall.active /\ ~userCall'.active) =>
              /\ last'.producer = "user"
              /\ \E i \in DOMAIN last'.batch : last'.batch[i].type = "gig_hired"
              /\ IdsOf(last'.batch) \subseteq IdsOf(allNotifications')
       /\ (chatCall.active /\ ~chatCall'.active) =>
              /\ last'.producer = "chat"
              /\ \A i \in DOMAIN chatCall.rooms :
                    RoomNotifies(chatCall.rooms[i]) =>
                        "msg-" \o chatCall.rooms[i].id \in IdsOf(last'.batch)
              /\ IdsOf(last'.batch) \subseteq IdsOf(allNotifications')]_vars


(***************************************************************************)
(* C22.  Teardown.  Once the effect has run again and its cleanup has      *)
(* unsubscribed the listeners of the run before, no callback of those      *)
(* listeners changes the list, a callback that was awaiting a lookup when  *)
(* the cleanup ran included.                                               *)
(***************************************************************************)
C22_NoMergeAfterTeardown ==
    [][/\ (userCall.active /\ userCall.torn /\ ~userCall'.active)
              => allNotifications' = allNotifications
       /\ (chatCall.active /\ chatCall.torn /\ ~chatCall'.active)
              => allNotifications' = allNotifications]_vars


(***************************************************************************)
(* C23.  Read state eventually shown.  When the last merge pass is that of *)
(* a user-record snapshot carrying the stored read state, every entry of   *)
(* the list whose identity is in the stored read state has isRead = TRUE,  *)
(* and the unread counter counts exactly the entries whose identity is     *)
(* not in it.                                                              *)
(***************************************************************************)
StoredStateMerged ==
    /\ last.producer = "user"
    /\ source.user.hasReadIds
    /\ source.user.readNotificationIds = readState

C23_ReadStateShown ==
    StoredStateMerged =>
        /\ \A i \in DOMAIN allNotifications :
              allNotifications[i].id \in readState => allNotifications[i].isRead
        /\ UnreadCountOf(allNotifications) =
              Cardinality({ i \in DOMAIN allNotifications :
                              allNotifications[i].id \notin readState })

\* A handler wrote the identity of an unread entry, and the snapshot that
\* carries the write was merged: the entry, unread before the pass, is read.
C23_Witness ==
    /\ StoredStateMerged
    /\ readWrites # <<>>
    /\ \E i \in DOMAIN allNotifications :
          /\ allNotifications[i].id \in readWrites[1]
          /\ allNotifications[i].isRead
          /\ \E j \in DOMAIN last.prev :
                /\ last.prev[j].id = allNotifications[i].id
                /\ ~last.prev[j].isRead


(***************************************************************************)
(* C24.  Delivery failure.  For an identity whose enqueueing has failed:   *)
(* it is not in the sent set, the one request made for it is the only one  *)
(* ever made (no retry), and its entry is in the list as it would be had   *)
(* the enqueueing succeeded.                                               *)
(***************************************************************************)
C24_DeliveryFailure ==
    \A id \in undelivered :
        /\ id \notin sentEmails
        /\ CopiesIn(id, mail) = 1
        /\ id \in IdsOf(allNotifications)

\* After the enqueueing for an identity failed, a later pass was given the
\* identity again and made no request.
C24_Witness ==
    \E id \in undelivered :
        /\ id \notin pendingSends
        /\ id \in IdsOf(last.batch)
        /\ id \in IdsOf(last.prev)
        /\ last.requests = <<>>


(***************************************************************************)
(* C25.  The read flag is monotonic.  An entry shown with isRead = TRUE    *)
(* whose identity is, before and after a step, in the read identities of   *)
(* the user record delivered last, is not shown with isRead = FALSE after  *)
(* the step.                                                               *)
(***************************************************************************)
C25_ReadFlagMonotonic ==
    [][\A i \in DOMAIN allNotifications :
          (/\ allNotifications[i].isRead
           /\ allNotifications[i].id \in ReadIdsOf(userData)
           /\ allNotifications[i].id \in ReadIdsOf(userData'))
             => \A j \in DOMAIN allNotifications' :
                   allNotifications'[j].id = allNotifications[i].id
                      => allNotifications'[j].isRead]_vars


(***************************************************************************)
(* C26.  No carry-over between users.  After the viewer has changed, and   *)
(* before any snapshot of the new viewer has arrived, the list holds no    *)
(* entry, the sent set no identity, and the user record that gives the     *)
(* read annotation is not the one of the viewer before.                    *)
(***************************************************************************)
C26_NoCarryOver ==
    user # uid =>
        /\ allNotifications = <<>>
        /\ sentEmails = {}
        /\ userData = NullUser


(***************************************************************************)
(* C27.  Portfolio cap.  An invocation of handleFileChange sets out to     *)
(* upload at most MAX_PORTFOLIO_ITEMS minus the item count of the profile  *)
(* files, and none when that difference is not positive; and the number of *)
(* items stored for the profile never exceeds MAX_PORTFOLIO_ITEMS, however *)
(* the invocations follow or overlap each other.                           *)
(***************************************************************************)
C27_PortfolioCap ==
    /\ \A i \in DOMAIN portfolio.calls :
          LET call == portfolio.calls[i]
          IN  /\ call.planned <= call.files
              /\ IF MAX_PORTFOLIO_ITEMS - call.seen <= 0
                 THEN call.planned = 0
                 ELSE call.planned <= MAX_PORTFOLIO_ITEMS - call.seen
    /\ portfolio.stored <= MAX_PORTFOLIO_ITEMS


(***************************************************************************)
(* C28.  Request media upload is all-or-nothing.  A completed call of      *)
(* uploadFiles has returned one ReferenceMedia per file, in the order of   *)
(* the files, exactly when every file fulfilled, and the empty list when   *)
(* one failed; there is one 'Upload Failed' toast per call that failed; a  *)
(* call with no file completes at once, returns the empty list, and leaves *)
(* isUploading and the toasts alone; and the step that completes a call    *)
(* of one file or more leaves isUploading false.                           *)
(***************************************************************************)
AllFulfilled(call) ==
    \A i \in DOMAIN call.outcomes : call.outcomes[i] \in {"ok", "noThumbnail"}

SomeRejected(call) ==
    \E i \in DOMAIN call.outcomes :
        call.outcomes[i] \in {"uploadFails", "thumbnailFails"}

MediaOf(call, i) ==
    /\ call.result[i].name = call.files[i].name
    /\ call.result[i].url = "url:" \o call.files[i].name
    /\ call.result[i].type =
          (IF call.files[i].mime = "video/mp4" THEN "video" ELSE "image")
    /\ call.result[i].thumbnailUrl =
          (IF call.files[i].mime = "video/mp4" /\ call.outcomes[i] = "ok"
           THEN "thumb:" \o call.files[i].name ELSE "")

UploadResults(u) ==
    /\ \A c \in DOMAIN u.calls :
          LET call == u.calls[c]
          IN  /\ call.done /\ AllFulfilled(call) =>
                    /\ Len(call.result) = Len(call.files)
                    /\ \A i \in DOMAIN call.files : MediaOf(call, i)
              /\ call.done /\ ~AllFulfilled(call) => call.result = <<>>
              /\ ~call.done => ~SomeRejected(call)
              /\ call.files = <<>> => call.done
    /\ u.toasts =
          [k \in 1..Cardinality({ c \in DOMAIN u.calls : SomeRejected(u.calls[c]) })
             |-> "Upload Failed"]

C28_UploadAllOrNothing ==
    [][ /\ UploadResults(upload')
        /\ (\E c \in DOMAIN upload.calls :
                ~upload.calls[c].done /\ upload'.calls[c].done)
              => ~upload'.isUploading
        /\ (/\ Len(upload'.calls) > Len(upload.calls)
            /\ upload'.calls[Len(upload'.calls)].files = <<>>)
              => /\ upload'.isUploading = upload.isUploading
                 /\ upload'.toasts = upload.toasts
                 /\ upload'.calls[Len(upload'.calls)].result = <<>> ]_vars

C28_Witness ==
    /\ ~upload.isUploading
    /\ \E c \in DOMAIN upload.calls :
          /\ upload.calls[c].done
          /\ upload.calls[c].files = <<VideoFile, ImageFile>>
          /\ Len(upload.calls[c].result) = 2
    /\ \E c \in DOMAIN upload.calls :
          /\ upload.calls[c].done
          /\ Len(upload.calls[c].files) = 2
          /\ SomeRejected(upload.calls[c])
    /\ Len(upload.toasts) = 1


(***************************************************************************)
(* C29.  Admin soft delete.  No step removes a record of the users         *)
(* collection.  The step in which the write of handleDeleteUser succeeds   *)
(* sets the status of the selected user to 'deleted' in the local list,    *)
(* leaves every other user of the list as it was, takes the user out of    *)
(* the active-users table and emits no event; the step in which the write  *)
(* fails leaves the local list and the collection as they were and emits   *)
(* exactly one 'permission-error' event with operation 'update' and the    *)
(* path of the user's document; both clear userToDelete; and an invocation *)
(* with no pending selection writes nothing.                               *)
(***************************************************************************)
Settles(c, state) ==
    /\ c \in DOMAIN adminPage.calls
    /\ adminPage.calls[c].state = "pending"
    /\ adminPage'.calls[c].state = state

C29_AdminSoftDelete ==
    [][ /\ { u.id : u \in adminPage'.users } = { u.id : u \in adminPage.users }
        /\ \A c \in DOMAIN adminPage.calls :
              LET id == adminPage.calls[c].id
              IN  /\ Settles(c, "written") =>
                        /\ Len(adminPage'.allUsers) = Len(adminPage.allUsers)
                        /\ \A i \in DOMAIN adminPage.allUsers :
                              IF adminPage.allUsers[i].id = id
                              THEN adminPage'.allUsers[i] =
                                     [id |-> id, status |-> "deleted"]
                              ELSE adminPage'.allUsers[i] = adminPage.allUsers[i]
                        /\ \A i \in DOMAIN activeUsers(adminPage'.allUsers) :
                              activeUsers(adminPage'.allUsers)[i].id # id
                        /\ adminPage'.events = adminPage.events
                        /\ adminPage'.userToDelete = ""
                  /\ Settles(c, "rejected") =>
                        /\ adminPage'.allUsers = adminPage.allUsers
                        /\ adminPage'.users = adminPage.users
                        /\ adminPage'.events =
                              Append(adminPage.events,
                                     [name |-> "permission-error",
                                      operation |-> "update",
                                      path |-> "users/" \o id])
                        /\ adminPage'.userToDelete = ""
        /\ (adminPage'.n = adminPage.n + 1 /\ adminPage.userToDelete = "") =>
              /\ adminPage'.users = adminPage.users
              /\ adminPage'.calls = adminPage.calls ]_vars

C29_Witness ==
    /\ adminPage.n = 2
    /\ \E c \in DOMAIN adminPage.calls :
          /\ adminPage.calls[c] = [id |-> otherUid, state |-> "written"]
          /\ AdminUser(otherUid, "deleted") \in adminPage.users
    /\ \E c \in DOMAIN adminPage.calls :
          adminPage.calls[c] = [id |-> uid, state |-> "rejected"]
    /\ Len(adminPage.events) = 1
    /\ adminPage.userToDelete = ""


(***************************************************************************)
(* C30.  Chat mark-as-read converges.  Every write of the active-room      *)
(* effect belongs to a snapshot of an existing room that is not a project  *)
(* chat and in which the flag of the current user is true, sets            *)
(* hasUnreadMessages[<current uid>] to false, and no snapshot has two      *)
(* writes; so a snapshot in which the flag is false, the one caused by the *)
(* write included, has no write.  The step that issues the write leaves    *)
(* the flag false and the flags of the others as they were.  A snapshot of *)
(* a project chat pushes /requests/<requestId>, one of a room that does    *)
(* not exist pushes /messages, and neither has a write.                    *)
(***************************************************************************)
WritesOf(page, k) == { w \in DOMAIN page.writes : page.writes[w].of = k }

MarkReadWrites(page) ==
    /\ \A w \in DOMAIN page.writes :
          LET snap == page.snaps[page.writes[w].of]
          IN  /\ snap.exists /\ ~snap.isProjectChat /\ "u1" \in snap.unreadFor
              /\ page.writes[w].field = "hasUnreadMessages.u1"
              /\ page.writes[w].value = FALSE
    /\ \A k \in DOMAIN page.snaps :
          /\ Cardinality(WritesOf(page, k)) <= 1
          /\ ~page.snaps[k].exists <=>
                [of |-> k, to |-> "/messages"] \in SeqToSet(page.pushes)
          /\ (page.snaps[k].exists /\ page.snaps[k].isProjectChat) <=>
                [of |-> k, to |-> "/requests/r1"] \in SeqToSet(page.pushes)
    /\ Len(page.pushes) =
          Cardinality({ k \in DOMAIN page.snaps :
                          ~page.snaps[k].exists \/ page.snaps[k].isProjectChat })

C30_MarkAsReadConverges ==
    [][ /\ MarkReadWrites(messagesPage')
        /\ Len(messagesPage'.writes) > Len(messagesPage.writes) =>
              /\ "u1" \notin messagesPage'.store.unreadFor
              /\ messagesPage'.store.unreadFor \ {"u1"} =
                    messagesPage.store.unreadFor \ {"u1"} ]_vars

C30_Witness ==
    \E w \in DOMAIN messagesPage.writes :
        /\ messagesPage.writes[w].state = "committed"
        /\ \E k \in DOMAIN messagesPage.snaps :
              /\ k > messagesPage.writes[w].of
              /\ messagesPage.snaps[k] = RoomDoc(TRUE, FALSE, "", {otherUid})
              /\ WritesOf(messagesPage, k) = {}
        /\ messagesPage.seen = messagesPage.store
        /\ messagesPage.delivered

=============================================================================
